---- MODULE Spec2Model ----
(***************************************************************************)
(* Atari ST framebuffer (hw/display/ataristfb.c): control register block,  *)
(* VBL timer and interrupt line, palette, scanline decoders, dirty log and  *)
(* redraw pass.                                                            *)
(***************************************************************************)
EXTENDS Integers, Sequences, FiniteSets, TLC

\* ---------------------------------------------------------------- constants

DAFB_MODE_VADDR1 == 0
DAFB_MODE_VADDR2 == 4
DAFB_MODE_CTRL1 == 8
DAFB_MODE_CTRL2 == 12
DAFB_INTR_MASK == 260
DAFB_INTR_STAT == 264
DAFB_INTR_CLEAR == 268
DAFB_LUT_INDEX == 512
DAFB_LUT == 528
DAFB_INTR_VBL == 4
DAFB_INTR_VBL_PERIOD_NS == 16625800

ATARISTFB_VRAM_SIZE == 4 * 1024 * 1024

\* ARRAY_SIZE(s->color_palette): 256 entries of three components.
PALETTE_BYTES == 256 * 3

\* The frame has 960 scanlines in the source; the model follows the first
\* FbHeight of them.
FbHeight == 10

\* Variant: the table lists a width that is no multiple of 16.
mode_table_odd_width ==
    << [depth |-> 1, width |-> 1290, height |-> FbHeight, stride |-> 160],
       [depth |-> 2, width |-> 1290, height |-> FbHeight, stride |-> 320],
       [depth |-> 4, width |-> 1290, height |-> FbHeight, stride |-> 640],
       [depth |-> 8, width |-> 1290, height |-> FbHeight, stride |-> 1280] >>

\* The supported modes: depth, width, height, stride.
atarifb_mode_table ==
    << [depth |-> 1, width |-> 1280, height |-> FbHeight, stride |-> 160],
       [depth |-> 2, width |-> 1280, height |-> FbHeight, stride |-> 320],
       [depth |-> 4, width |-> 1280, height |-> FbHeight, stride |-> 640],
       [depth |-> 8, width |-> 1280, height |-> FbHeight, stride |-> 1280] >>

\* The built-in palettes as the flat byte arrays memcpy reads: the entries
\* the initialisers give; the remaining ones of the 256 are 0.
st_2_palette ==
    <<255, 255, 255, 255, 0, 0, 0, 255, 0, 0, 0, 0>>

st_4_palette ==
    <<255, 255, 255, 255, 0, 0, 0, 255, 0, 255, 255, 0,
       0, 0, 255, 255, 0, 255, 0, 255, 255, 64, 64, 64,
       127, 127, 127, 255, 127, 127, 127, 255, 127, 255, 255, 127,
       127, 127, 255, 255, 127, 255, 127, 255, 255, 0, 0, 0>>

st_8_palette ==
    <<255, 255, 255, 255, 0, 0, 0, 255, 0, 255, 255, 0,
       0, 0, 255, 255, 0, 255, 0, 255, 255, 170, 170, 170,
       102, 102, 102, 255, 153, 153, 153, 255, 153, 255, 255, 153,
       153, 153, 255, 255, 153, 255, 153, 255, 255, 0, 0, 0,
       255, 255, 255, 238, 238, 238, 221, 221, 221, 204, 204, 204,
       187, 187, 187, 170, 170, 170, 153, 153, 153, 136, 136, 136,
       119, 119, 119, 102, 102, 102, 85, 85, 85, 68, 68, 68,
       51, 51, 51, 34, 34, 34, 17, 17, 17, 0, 0, 0,
       255, 0, 0, 255, 0, 17, 255, 0, 34, 255, 0, 51,
       255, 0, 68, 255, 0, 85, 255, 0, 102, 255, 0, 119,
       255, 0, 136, 255, 0, 153, 255, 0, 170, 255, 0, 187,
       255, 0, 204, 255, 0, 221, 255, 0, 238, 255, 0, 255,
       238, 0, 255, 221, 0, 255, 204, 0, 255, 187, 0, 255,
       170, 0, 255, 153, 0, 255, 136, 0, 255, 119, 0, 255,
       102, 0, 255, 85, 0, 255, 68, 0, 255, 51, 0, 255,
       34, 0, 255, 17, 0, 255, 0, 0, 255, 0, 17, 255,
       0, 34, 255, 0, 51, 255, 0, 68, 255, 0, 85, 255,
       0, 102, 255, 0, 119, 255, 0, 136, 255, 0, 153, 255,
       0, 170, 255, 0, 187, 255, 0, 204, 255, 0, 221, 255,
       0, 238, 255, 0, 255, 255, 0, 255, 238, 0, 255, 221,
       0, 255, 204, 0, 255, 187, 0, 255, 170, 0, 255, 153,
       0, 255, 136, 0, 255, 119, 0, 255, 102, 0, 255, 85,
       0, 255, 68, 0, 255, 51, 0, 255, 34, 0, 255, 17,
       0, 255, 0, 17, 255, 0, 34, 255, 0, 51, 255, 0,
       68, 255, 0, 85, 255, 0, 102, 255, 0, 119, 255, 0,
       136, 255, 0, 153, 255, 0, 170, 255, 0, 187, 255, 0,
       204, 255, 0, 221, 255, 0, 238, 255, 0, 255, 255, 0,
       255, 238, 0, 255, 221, 0, 255, 204, 0, 255, 187, 0,
       255, 170, 0, 255, 153, 0, 255, 136, 0, 255, 119, 0,
       255, 102, 0, 255, 85, 0, 255, 68, 0, 255, 51, 0,
       255, 34, 0, 255, 17, 0, 187, 0, 0, 187, 0, 17,
       187, 0, 34, 187, 0, 51, 187, 0, 68, 187, 0, 85,
       187, 0, 102, 187, 0, 119, 187, 0, 136, 187, 0, 153,
       187, 0, 170, 187, 0, 187, 170, 0, 187, 153, 0, 187,
       136, 0, 187, 119, 0, 187, 102, 0, 187, 85, 0, 187,
       68, 0, 187, 51, 0, 187, 34, 0, 187, 17, 0, 187,
       0, 0, 187, 0, 17, 187, 0, 34, 187, 0, 51, 187,
       0, 68, 187, 0, 85, 187, 0, 102, 187, 0, 119, 187,
       0, 136, 187, 0, 153, 187, 0, 170, 187, 0, 187, 187,
       0, 187, 170, 0, 187, 153, 0, 187, 136, 0, 187, 119,
       0, 187, 102, 0, 187, 85, 0, 187, 68, 0, 187, 51,
       0, 187, 34, 0, 187, 17, 0, 187, 0, 17, 187, 0,
       34, 187, 0, 51, 187, 0, 68, 187, 0, 85, 187, 0,
       102, 187, 0, 119, 187, 0, 136, 187, 0, 153, 187, 0,
       170, 187, 0, 187, 187, 0, 187, 170, 0, 187, 153, 0,
       187, 136, 0, 187, 119, 0, 187, 102, 0, 187, 85, 0,
       187, 68, 0, 187, 51, 0, 187, 34, 0, 187, 17, 0,
       119, 0, 0, 119, 0, 17, 119, 0, 34, 119, 0, 51,
       119, 0, 68, 119, 0, 85, 119, 0, 102, 119, 0, 119,
       102, 0, 119, 85, 0, 119, 68, 0, 119, 51, 0, 119,
       34, 0, 119, 17, 0, 119, 0, 0, 119, 0, 17, 119,
       0, 34, 119, 0, 51, 119, 0, 68, 119, 0, 85, 119,
       0, 102, 119, 0, 119, 119, 0, 119, 102, 0, 119, 85,
       0, 119, 68, 0, 119, 51, 0, 119, 34, 0, 119, 17,
       0, 119, 0, 17, 119, 0, 34, 119, 0, 51, 119, 0,
       68, 119, 0, 85, 119, 0, 102, 119, 0, 119, 119, 0,
       119, 102, 0, 119, 85, 0, 119, 68, 0, 119, 51, 0,
       119, 34, 0, 119, 17, 0, 68, 0, 0, 68, 0, 17,
       68, 0, 34, 68, 0, 51, 68, 0, 68, 51, 0, 68,
       34, 0, 68, 17, 0, 68, 0, 0, 68, 0, 17, 68,
       0, 34, 68, 0, 51, 68, 0, 68, 68, 0, 68, 51,
       0, 68, 34, 0, 68, 17, 0, 68, 0, 17, 68, 0,
       34, 68, 0, 51, 68, 0, 68, 68, 0, 68, 51, 0,
       68, 34, 0, 68, 17, 0, 255, 255, 255, 0, 0, 0>>

\* Register indices named by include/hw/display/ataristfb.h.
REG_DEPTH == 3
REG_WIDTH == 4
REG_HEIGHT == 5

\* Upper limit of the register file reached by the default branches of the
\* read and write handlers.  The header that sets it is not part of the
\* sources at hand; the handlers index regs[DAFB_INTR_STAT >> 2] directly, so
\* the register file extends beyond DAFB_INTR_STAT, and the device this file
\* derives from ends its register file at the LUT index register.
ATARISTFB_CTRL_TOPADDR == DAFB_LUT_INDEX

\* ------------------------------------------------------------------- bounds

\* Virtual time advances in steps of half a VBL period, MaxTicks steps at most.
MaxTicks == 6
TickNs == DAFB_INTR_VBL_PERIOD_NS \div 2
MaxTime == MaxTicks * TickNs

\* The palette cursor is followed up to MaxLutCursor; the model keeps the
\* palette components 0 .. MaxLutCursor.
MaxLutCursor == 3
PaletteIdx == 0 .. MaxLutCursor

\* The decoders are followed over the first DecGroups groups of 16 pixels
\* of a scanline (80 groups in the source).
DecGroups == 2
DecWidth == 16 * DecGroups

\* The bytes of video memory that hold those groups at depth d.
VramIdx(d) == 0 .. DecGroups * 2 * d - 1

\* --------------------------------------------------------------- bit helpers

RECURSIVE BitAnd(_, _)
BitAnd(a, b) ==
    IF a = 0 \/ b = 0 THEN 0
    ELSE (a % 2) * (b % 2) + 2 * BitAnd(a \div 2, b \div 2)

BitOr(a, b) == a + b - BitAnd(a, b)

BitClear(a, m) == a - BitAnd(a, m)

\* -------------------------------------------------------------------- inputs

\* Offsets the guest accesses in the control block: the two address
\* registers, REG_WIDTH * 4, the interrupt mask (word access and a byte
\* access inside it), the interrupt status, the interrupt clear strobe and
\* an offset above the register file.
RegAddrs ==
    {DAFB_MODE_VADDR1, REG_WIDTH * 4, DAFB_INTR_MASK, DAFB_INTR_MASK + 1,
     DAFB_INTR_STAT, DAFB_INTR_CLEAR, 2 * DAFB_LUT_INDEX}

WriteVals(addr) ==
    CASE addr = DAFB_MODE_VADDR1 -> {0, 100, 101}
      [] addr = REG_WIDTH * 4 -> {0, 321}
      [] addr = DAFB_INTR_MASK -> {0, 1, 4, 5, 2000000}
      [] addr = DAFB_INTR_MASK + 1 -> {0, 1}
      [] addr = DAFB_INTR_STAT -> {0, 1}
      [] OTHER -> {0, 1}

\* Offsets and values of the palette accesses.
LutAddrs == {DAFB_LUT_INDEX, DAFB_LUT, DAFB_LUT + 3}

LutVals(addr) == IF addr = DAFB_LUT_INDEX THEN {0, 1} ELSE {255}

\* Offsets and values of the accesses of SpecIo: an address register, the
\* interrupt mask (word access and a byte access inside it), the interrupt
\* clear strobe, the palette index and data registers, and an offset above
\* the register file.
IoAddrs ==
    {DAFB_MODE_VADDR1, DAFB_INTR_MASK, DAFB_INTR_MASK + 1, DAFB_INTR_CLEAR,
     DAFB_LUT_INDEX, DAFB_LUT, 2 * DAFB_LUT_INDEX}

IoVals(addr) ==
    CASE addr = DAFB_MODE_VADDR1 -> {0, 100}
      [] addr = DAFB_INTR_MASK -> {0, 4}
      [] addr = DAFB_LUT_INDEX -> {0, 1, 256}
      [] addr = DAFB_LUT -> {255, 511}
      [] OTHER -> {1}

\* Scanlines the guest stores to: a band of three, a single line and the
\* last line of the frame.
SampleLines(h) == {2, 3, 4, 7, h - 1}

\* Video memory bytes the guest stores to: the first byte of an even sample
\* line, the last byte of an odd one, and the first byte after the frame.
VramAddrs(m) ==
    {y * m.stride + (IF y % 2 = 0 THEN 0 ELSE m.stride - 1) :
        y \in SampleLines(m.height)} \cup {m.height * m.stride}

\* Registers of the file that the offsets above reach.
RegIdx ==
    {a \div 4 : a \in {x \in RegAddrs : x < ATARISTFB_CTRL_TOPADDR}}
        \cup {DAFB_INTR_STAT \div 4, DAFB_INTR_MASK \div 4,
              REG_DEPTH, REG_WIDTH, REG_HEIGHT}

\* --------------------------------------------------------------------- state

VARIABLES
    regs,             \* s->regs[], restricted to RegIdx
    vbl_timer,        \* expiry time of s->vbl_timer, -1 when not pending
    irq,              \* level of s->irq
    now,              \* QEMU_CLOCK_VIRTUAL, ns
    mode,             \* s->mode, an entry of atarifb_mode_table
    width,            \* s->width
    height,           \* s->height
    depth,            \* s->depth
    palette_current,  \* s->palette_current
    color_palette,    \* s->color_palette[]: the components PaletteIdx in
                      \* Spec and SpecFb, all of them in SpecDec
    dirty,            \* live DIRTY_MEMORY_VGA log of s->mem_vram
    surface,          \* size of the console surface
    updates,          \* dpy_gfx_update calls made by the last step
    drawn,            \* scanlines decoded by the last step
    snapshot,         \* dirty snapshot taken by the last step
    vram,             \* s->vram[], the bytes of the first DecGroups groups
                      \* of 16 pixels of scanline 0
    host_big_endian,  \* byte order of the host the device is built for
    pixels,           \* surface pixels of scanline 0 written by the decoder
    resized,          \* the last step called qemu_console_resize
    draw_func,        \* the routine the last pass selected ("none": no pass)
    dev,              \* realize: its outcome, what it created, the error
                      \* it set and the bits per pixel of the host surface
    raised_by_vbl,    \* history: a timer firing asserted the line and no
                      \* write to DAFB_INTR_CLEAR followed
    written,          \* history: bytes stored to since the last snapshot
    captured,         \* history: one byte whose store an earlier snapshot
                      \* has captured (-1: none followed)
    invalidated,      \* history: display invalidated since the last snapshot
    lut_written,      \* history: the value the guest last wrote to each
                      \* palette component since attach or reset (-1: none)
    last,             \* history: the operation that produced this state
    kbd,              \* KBDState of the keyboard controller and its s->irq
    kbd_hist,         \* history: the last keyboard operation, the motion
                      \* received and the motion queued since the last reset
    mfp,              \* MFPState: regs[], the three timers and s->irq
    mfp_hist          \* history: the last operation on the MFP

fbvars == <<regs, vbl_timer, irq, now, mode, width, height, depth,
          palette_current, color_palette, dirty, surface, updates, drawn,
          snapshot, vram, host_big_endian, pixels, resized, draw_func, dev,
          raised_by_vbl, written,
          captured, invalidated, lut_written, last>>

kbdvars == <<kbd, kbd_hist>>

mfpvars == <<mfp, mfp_hist>>

periph == <<kbdvars, mfpvars>>

vars == <<fbvars, periph>>

\* prev: the timer expiry before the step; after_full: the step came
\* directly after a redraw pass that redrew the whole frame.
Op(op, addr, val) ==
    [op |-> op, addr |-> addr, val |-> val, prev |-> vbl_timer,
     after_full |-> /\ last.op = "draw"
                    /\ updates = <<[x |-> 0, y |-> 0, w |-> width,
                                    h |-> height]>>]

\* ------------------------------------------------- keyboard controller

CSR_RXINT_ENABLE == 128
CSR_INTERRUPT == 128
CSR_TXRDY == 2
CSR_RXRDY == 1
CMD_RESET1 == 128
CMD_RESET2 == 1
RSP_RESET == 240
CMD_SET_RELATIVE == 8
CMD_RESUME == 17
CMD_DISABLE_MOUSE == 18

\* Capacity of s->fifo (256 in the source).
FifoCap == 6

\* Relative motion events are followed up to MaxMoves of them between two
\* resets; each moves the pointer by one of MotionVals on one axis.
MaxMoves == 2
MotionVals == {-300, 200}

\* Scancodes qcode_to_ikbd gives for the keys pressed: 0 for a key the table
\* does not list, 0x1e for Q_KEY_CODE_A.
KeyCodes == {0, 30}

\* Button events: presses of the middle button, which has a scancode, and
\* presses and releases of the left button and presses of the right
\* one, which a motion packet reports.
CodeButtons == {<<"middle", TRUE>>}
PacketButtons == {<<"left", FALSE>>, <<"left", TRUE>>, <<"right", TRUE>>}

\* Guest accesses to the two registers: offsets, sizes, control values and
\* command bytes.
KbdAddrs == {0, 2}
KbdSizes == {1, 4}
KbdCtrlVals == {0, 128, 384}
KbdCmds == {CMD_RESET1, CMD_RESET2, CMD_RESUME}

\* (int8_t)v and (uint8_t)v of the byte pushed for a motion value.
Byte(v) == v % 256
Signed8(b) == IF b >= 128 THEN b - 256 ELSE b

\* Fifo8: a push into a full queue and a pop from an empty one fail an
\* assertion, recorded in aborted.
fifo8_is_empty(s) == s.fifo = <<>>
fifo8_is_full(s) == Len(s.fifo) >= FifoCap
fifo8_num_free(s) == FifoCap - Len(s.fifo)

fifo8_push(s, b) ==
    IF fifo8_is_full(s) THEN [s EXCEPT !.aborted = TRUE]
    ELSE [s EXCEPT !.fifo = Append(@, b)]

fifo8_pop(s) ==
    IF fifo8_is_empty(s) THEN [s EXCEPT !.aborted = TRUE]
    ELSE [s EXCEPT !.fifo = Tail(@)]

fifo8_reset(s) == [s EXCEPT !.fifo = <<>>]

\* Variant: the line is raised whenever data is ready, enabled or not.
kbd_update_interrupt_always(s) ==
    LET rx == ~fifo8_is_empty(s) /\ ~s.paused
    IN  [s EXCEPT !.status_reg = CSR_TXRDY + (IF rx THEN CSR_RXRDY ELSE 0)
                                 + (IF rx THEN CSR_INTERRUPT ELSE 0),
                  !.irq = IF rx THEN 1 ELSE 0]

\* The status register and the interrupt line recomputed.
kbd_update_interrupt(s) ==
    LET rx == ~fifo8_is_empty(s) /\ ~s.paused
        int == BitAnd(s.ctrl_reg, CSR_RXINT_ENABLE) # 0 /\ rx
    IN  [s EXCEPT !.status_reg = CSR_TXRDY + (IF rx THEN CSR_RXRDY ELSE 0)
                                 + (IF int THEN CSR_INTERRUPT ELSE 0),
                  !.irq = IF int THEN 1 ELSE 0]

kbd_do_reset(s) ==
    kbd_update_interrupt([fifo8_reset(s) EXCEPT !.buttons = 3,
                                                !.dx = 0,
                                                !.dy = 0,
                                                !.reset_pending = FALSE])

\* The instance after kbd_realize and the reset of the machine: zeroed
\* memory, then kbd_do_reset.
KbdPowerOn ==
    kbd_do_reset([ctrl_reg |-> 0, status_reg |-> 0, fifo |-> <<>>,
                  buttons |-> 0, dx |-> 0, dy |-> 0,
                  reset_pending |-> FALSE, paused |-> FALSE,
                  mouse_disabled |-> FALSE, irq |-> 0, aborted |-> FALSE])

kbd_cmd(s, cmd) ==
    CASE cmd = CMD_RESET1 -> [s EXCEPT !.reset_pending = TRUE]
      [] cmd = CMD_RESET2 ->
            IF s.reset_pending
            THEN kbd_update_interrupt(fifo8_push(kbd_do_reset(s), RSP_RESET))
            ELSE s
      [] cmd = CMD_RESUME -> kbd_update_interrupt([s EXCEPT !.paused = FALSE])
      [] cmd = CMD_DISABLE_MOUSE -> [s EXCEPT !.mouse_disabled = TRUE]
      [] cmd = CMD_SET_RELATIVE -> [s EXCEPT !.mouse_disabled = FALSE]
      [] OTHER -> s

\* The device after a read and the value read.
kbd_readfn(s, addr, size) ==
    IF size <= 2 /\ addr = 0 THEN [s |-> s, val |-> s.status_reg]
    ELSE IF size <= 2 /\ addr = 2 /\ ~fifo8_is_empty(s) /\ ~s.paused
    THEN [s |-> kbd_update_interrupt(fifo8_pop(s)), val |-> Head(s.fifo)]
    ELSE [s |-> s, val |-> 0]

kbd_writefn(s, addr, value, size) ==
    IF size <= 2 /\ addr = 0
    THEN kbd_update_interrupt([s EXCEPT !.ctrl_reg = value % 256])
    ELSE IF size <= 2 /\ addr = 2 THEN kbd_cmd(s, value % 256)
    ELSE s

\* Variant: the scancode is pushed whether the queue is full or not.
kbd_input_no_check(s, ikbdcode, down) ==
    IF ikbdcode # 0
    THEN kbd_update_interrupt(
             fifo8_push(s, IF down THEN ikbdcode ELSE BitOr(ikbdcode, 128)))
    ELSE s

\* A key event whose key maps to ikbdcode.
kbd_input(s, ikbdcode, down) ==
    IF ikbdcode # 0
    THEN LET code == IF down THEN ikbdcode ELSE BitOr(ikbdcode, 128)
         IN  kbd_update_interrupt(IF ~fifo8_is_full(s)
                                  THEN fifo8_push(s, code) ELSE s)
    ELSE s

\* A pointer event: relative motion on one axis or a button.
mouse_input(s, evt) ==
    IF evt.type = "rel"
    THEN IF evt.axis = "x" THEN [s EXCEPT !.dx = @ + evt.value]
         ELSE [s EXCEPT !.dy = @ + evt.value]
    ELSE CASE evt.button = "left" ->
                [s EXCEPT !.buttons = IF evt.down THEN BitOr(@, 2)
                                      ELSE BitClear(@, 2)]
           [] evt.button = "right" ->
                [s EXCEPT !.buttons = IF evt.down THEN BitOr(@, 1)
                                      ELSE BitClear(@, 1)]
           [] evt.button = "middle" ->
                LET code == IF evt.down THEN 55 ELSE BitOr(55, 128)
                IN  IF ~fifo8_is_full(s)
                    THEN kbd_update_interrupt(fifo8_push(s, code))
                    ELSE s
           [] OTHER -> s

\* Variant: the whole accumulator is forgotten once a packet is queued.
mouse_residual_zero(acc, d) == 0

\* The accumulator after a packet that carries d.
mouse_residual(acc, d) == acc - d

\* The motion a packet carries for the accumulator acc.
mouse_clamp(acc) ==
    IF acc > 127 THEN 127 ELSE IF acc < -128 THEN -128 ELSE acc

\* The loop of mouse_sync, after n iterations: st.s is the device, st.n the
\* iterations made so far.
RECURSIVE mouse_sync_loop(_)
mouse_sync_loop(st) ==
    IF ~(~st.s.paused /\ fifo8_num_free(st.s) >= 3) THEN st
    ELSE LET s == st.s
             dx == mouse_clamp(s.dx)
             dy == mouse_clamp(s.dy)
             p1 == fifo8_push(s, BitOr(248, s.buttons))
             p2 == fifo8_push(p1, Byte(dx))
             p3 == fifo8_push(p2, Byte(dy))
             t == [p3 EXCEPT !.dx = mouse_residual(s.dx, dx),
                             !.dy = mouse_residual(s.dy, dy)]
             nx == [s |-> t, n |-> st.n + 1]
         IN  IF t.dx = 0 /\ t.dy = 0 THEN nx ELSE mouse_sync_loop(nx)

mouse_sync(s) ==
    LET st == mouse_sync_loop([s |-> s, n |-> 0])
    IN  [s |-> kbd_update_interrupt(st.s), n |-> st.n]

\* 0 when the queue is full, 1 when it has room.
Room(s) == IF fifo8_is_full(s) THEN 0 ELSE 1

\* The history after a step: arg is the command byte or the offset of the
\* access, for a key or button event the room the queue had; sx and sy are the motion the step queued, mx
\* and my the motion it received.
KbdHist(op, arg, ret, cmd, mx, my, sx, sy, n) ==
    [op |-> op, arg |-> arg, ret |-> ret, prev_cmd |-> cmd,
     moves |-> kbd_hist.moves + (IF mx # 0 \/ my # 0 THEN 1 ELSE 0),
     moved_x |-> kbd_hist.moved_x + mx, moved_y |-> kbd_hist.moved_y + my,
     sent_x |-> kbd_hist.sent_x + sx, sent_y |-> kbd_hist.sent_y + sy,
     iters |-> n]

KbdHistReset(op, arg, cmd) ==
    [op |-> op, arg |-> arg, ret |-> 0, prev_cmd |-> cmd, moves |-> 0,
     moved_x |-> 0, moved_y |-> 0, sent_x |-> 0, sent_y |-> 0, iters |-> 0]

\* The motion of the packets in the bytes q, three bytes a packet.
RECURSIVE PacketSum(_, _)
PacketSum(q, k) ==
    IF Len(q) < 3 THEN 0
    ELSE Signed8(q[k]) + PacketSum(SubSeq(q, 4, Len(q)), k)

\* The bytes a step appended to the queue.
Pushed(old, new) == SubSeq(new.fifo, Len(old.fifo) + 1, Len(new.fifo))

KbdKey ==
    /\ \E code \in KeyCodes : \E down \in BOOLEAN :
          /\ kbd' = kbd_input(kbd, code, down)
          /\ kbd_hist' = KbdHist("key", Room(kbd), 0,
                                 kbd_hist.prev_cmd,
                                 0, 0, 0, 0, 0)
    /\ UNCHANGED <<fbvars, mfpvars>>

MouseRel ==
    /\ kbd_hist.moves < MaxMoves
    /\ \E axis \in {"x", "y"} : \E v \in MotionVals :
          /\ kbd' = mouse_input(kbd, [type |-> "rel", axis |-> axis,
                                      value |-> v, button |-> "none",
                                      down |-> FALSE])
          /\ kbd_hist' = KbdHist("rel", 0, 0, kbd_hist.prev_cmd,
                                 IF axis = "x" THEN v ELSE 0,
                                 IF axis = "y" THEN v ELSE 0, 0, 0, 0)
    /\ UNCHANGED <<fbvars, mfpvars>>

MouseBtn(events) ==
    /\ \E e \in events :
          /\ kbd' = mouse_input(kbd, [type |-> "btn", axis |-> "none",
                                      value |-> 0, button |-> e[1],
                                      down |-> e[2]])
          /\ kbd_hist' = KbdHist("btn", Room(kbd), 0,
                                 kbd_hist.prev_cmd, 0, 0, 0, 0, 0)
    /\ UNCHANGED <<fbvars, mfpvars>>

MouseCodeBtn == MouseBtn(CodeButtons)

MousePacketBtn == MouseBtn(PacketButtons)

MouseSync ==
    /\ LET r == mouse_sync(kbd)
       IN  /\ kbd' = r.s
           /\ kbd_hist' = KbdHist("sync", 0, 0, kbd_hist.prev_cmd, 0, 0,
                                  PacketSum(Pushed(kbd, r.s), 2),
                                  PacketSum(Pushed(kbd, r.s), 3), r.n)
    /\ UNCHANGED <<fbvars, mfpvars>>

KbdRead ==
    /\ \E addr \in KbdAddrs : \E size \in KbdSizes :
          LET r == kbd_readfn(kbd, addr, size)
          IN  /\ kbd' = r.s
              /\ kbd_hist' = KbdHist(IF size <= 2 /\ addr = 2 THEN "read"
                                     ELSE "peek", addr, r.val,
                                     kbd_hist.prev_cmd, 0, 0, 0, 0, 0)
    /\ UNCHANGED <<fbvars, mfpvars>>

KbdWriteCtrl ==
    /\ \E value \in KbdCtrlVals : \E size \in KbdSizes :
          /\ kbd' = kbd_writefn(kbd, 0, value, size)
          /\ kbd_hist' = KbdHist("ctrl", 0, 0, kbd_hist.prev_cmd,
                                 0, 0, 0, 0, 0)
    /\ UNCHANGED <<fbvars, mfpvars>>

\* A command byte; the history counts anew after a commanded reset.
KbdWriteCmd ==
    /\ \E cmd \in KbdCmds :
          /\ kbd' = kbd_writefn(kbd, 2, cmd, 1)
          /\ kbd_hist' = IF cmd = CMD_RESET2 /\ kbd.reset_pending
                         THEN KbdHistReset("cmd", cmd, cmd)
                         ELSE KbdHist("cmd", cmd, 0, cmd, 0, 0, 0, 0, 0)
    /\ UNCHANGED <<fbvars, mfpvars>>

\* The reset of the machine.
kbd_reset ==
    /\ kbd' = kbd_do_reset(kbd)
    /\ kbd_hist' = KbdHistReset("reset", 0, -1)
    /\ UNCHANGED <<fbvars, mfpvars>>

\* ---------------------------------------------------------------------- MFP

MFP_REG_GPDR == 0
MFP_REG_IERA == 3
MFP_REG_IERB == 4
MFP_REG_IPRA == 5
MFP_REG_IPRB == 6
MFP_REG_ISRA == 7
MFP_REG_ISRB == 8
MFP_REG_IMRA == 9
MFP_REG_IMRB == 10
MFP_REG_TACR == 12
MFP_REG_TBCR == 13
MFP_REG_TCDCR == 14
MFP_REG_TADR == 15
MFP_REG_TBDR == 16
MFP_REG_TCDR == 17
MFP_REG_UDR == 23

IRA_TIMER_B == 1
IRA_TIMER_A == 32
IRB_TIMER_C == 32
IRB_GPIP_4 == 64

mfp_prescale_table == <<0, 4, 10, 16, 50, 64, 100, 200>>

\* Registers the guest writes: the interrupt registers with the registers
\* of timer A, and the timer registers.
MfpIrqRegs ==
    {MFP_REG_IERA, MFP_REG_IMRA, MFP_REG_IPRA, MFP_REG_ISRA, MFP_REG_IERB,
     MFP_REG_IMRB, MFP_REG_IPRB, MFP_REG_TACR, MFP_REG_TADR}

MfpTimerRegs ==
    {MFP_REG_TACR, MFP_REG_TADR, MFP_REG_TBCR, MFP_REG_TCDCR}

\* Their byte offsets (a register is at the odd offset 2 * reg + 1), with
\* one even offset and the read-only GPDR.  mfp_ops splits every access
\* into bytes, so that mfp_write is always called with the size 1.
MfpAddrs(rs) ==
    {2 * r + 1 : r \in rs} \cup {2 * MFP_REG_TACR, 2 * MFP_REG_GPDR + 1}

\* The values written.
MfpVals(r) ==
    CASE r \in {MFP_REG_IERA, MFP_REG_IMRA} -> {0, IRA_TIMER_A}
      [] r \in {MFP_REG_IERB, MFP_REG_IMRB} -> {0, IRB_GPIP_4}
      [] r = MFP_REG_IPRA -> {255, 255 - IRA_TIMER_A}
      [] r = MFP_REG_IPRB -> {255 - IRB_GPIP_4}
      [] r = MFP_REG_ISRA -> {0}
      [] r = MFP_REG_TACR -> {0, 7}
      [] r = MFP_REG_TADR -> {0, 100}
      [] r = MFP_REG_TBCR -> {1}
      [] r = MFP_REG_TCDCR -> {112}
      [] OTHER -> {255}

\* GPIP lines that change level: 4 carries the keyboard controller.
GpipLines == {4}

\* The MFP is followed over MaxMfpTicks steps of the virtual clock.
MaxMfpTicks == 1

\* ~val as stored in a uint8_t register.
Not8(val) == 255 - (val % 256)

mfp_update_irq(r) ==
    IF \/ BitAnd(r[MFP_REG_IMRA], r[MFP_REG_IPRA]) # 0
       \/ BitAnd(r[MFP_REG_IMRB], r[MFP_REG_IPRB]) # 0
    THEN 1 ELSE 0

\* (1000000000 * prescale * data) / s->clock for the clock of 2457600 Hz:
\* 1000000000 / 2457600 is 78125 / 192, and the quotient is taken in two
\* parts to stay within the integers of the checker.
mfp_period_ns(p, d) ==
    LET x == p * d
    IN  78125 * (x \div 192) + (78125 * (x % 192)) \div 192

mfp_timer_deadline_ns(r, prescale, reg) ==
    now + mfp_period_ns(mfp_prescale_table[prescale + 1], r[reg])

\* A timer: pending after timer_mod; forever when set to 1 << 62.
TimerIdle == [pending |-> FALSE, forever |-> FALSE, expire |-> 0]
TimerForever == [pending |-> TRUE, forever |-> TRUE, expire |-> 0]
TimerAt(t) == [pending |-> TRUE, forever |-> FALSE, expire |-> t]

\* The timer after mfp_reset_timer_a, _b or _cd, for the prescale selection
\* val and the data register reg.
mfp_reset_timer(r, val, reg) ==
    IF mfp_prescale_table[val + 1] = 0 THEN TimerForever
    ELSE TimerAt(mfp_timer_deadline_ns(r, val, reg))

\* The prescale selections of the three timers.
PrescaleA(r) == r[MFP_REG_TACR] % 8
PrescaleB(r) == r[MFP_REG_TBCR] % 8
PrescaleC(r) == (r[MFP_REG_TCDCR] \div 16) % 8

mfp_reset_timer_a(r) ==
    mfp_reset_timer(r, PrescaleA(r), MFP_REG_TADR)

mfp_reset_timer_b(r) ==
    mfp_reset_timer(r, PrescaleB(r), MFP_REG_TBDR)

mfp_reset_timer_cd(r) ==
    mfp_reset_timer(r, PrescaleC(r), MFP_REG_TCDR)

\* The device after mfp_realize and the reset of the machine.
MfpPowerOn ==
    [regs |-> [i \in 0 .. MFP_REG_UDR |-> 0], timer_a |-> TimerIdle,
     timer_b |-> TimerIdle, timer_c |-> TimerIdle, irq |-> 0]

MfpHist(op, addr, val) == [op |-> op, addr |-> addr, val |-> val]

\* The registers after a write of val to IPRA or IPRB: zeros clear, and
\* the bits written as zero are set in the in-service register.
mfp_write_ipr(r, reg, val) ==
    LET isr == IF BitAnd(val, r[reg]) # r[reg]
               THEN [r EXCEPT ![reg + 2] = BitOr(@, Not8(val))] ELSE r
    IN  [isr EXCEPT ![reg] = BitAnd(@, val)]

\* mfp_write of the byte val at offset addr.
mfp_write(addr, val, size) ==
    LET reg == addr \div 2
        r == mfp.regs
    IN  IF addr % 2 = 0 \/ size # 1 THEN mfp
        ELSE CASE reg \in {MFP_REG_TADR, MFP_REG_TBDR, MFP_REG_TCDR} ->
                    [mfp EXCEPT !.regs[reg] = val % 256]
               [] reg \in {MFP_REG_IERA, MFP_REG_IERB, MFP_REG_IMRA,
                           MFP_REG_IMRB} ->
                    LET n == [r EXCEPT ![reg] = val % 256]
                    IN  [mfp EXCEPT !.regs = n, !.irq = mfp_update_irq(n)]
               [] reg \in {MFP_REG_IPRA, MFP_REG_IPRB} ->
                    LET n == mfp_write_ipr(r, reg, val)
                    IN  [mfp EXCEPT !.regs = n, !.irq = mfp_update_irq(n)]
               [] reg \in {MFP_REG_ISRA, MFP_REG_ISRB} ->
                    [mfp EXCEPT !.regs[reg] = BitAnd(@, val)]
               [] reg = MFP_REG_TACR ->
                    LET n == [r EXCEPT ![reg] = val % 256]
                    IN  [mfp EXCEPT !.regs = n,
                                    !.timer_a = mfp_reset_timer_a(n)]
               [] reg = MFP_REG_TBCR ->
                    LET n == [r EXCEPT ![reg] = val % 256]
                    IN  [mfp EXCEPT !.regs = n,
                                    !.timer_b = mfp_reset_timer_b(n)]
               [] reg = MFP_REG_TCDCR ->
                    LET n == [r EXCEPT ![reg] = val % 256]
                    IN  [mfp EXCEPT !.regs = n,
                                    !.timer_c = mfp_reset_timer_cd(n)]
               [] OTHER -> mfp

MfpWrite(rs) ==
    /\ \E addr \in MfpAddrs(rs) : \E val \in MfpVals(addr \div 2) :
          /\ mfp' = mfp_write(addr, val, 1)
          /\ mfp_hist' = MfpHist(IF addr % 2 = 1 THEN "write" ELSE "ignored",
                                 addr \div 2, val)
    /\ UNCHANGED <<fbvars, kbdvars>>

MfpIrqWrite == MfpWrite(MfpIrqRegs)

MfpTimerWrite == MfpWrite(MfpTimerRegs)

\* The virtual clock advances by half a VBL period.
MfpTick ==
    /\ now < MaxMfpTicks * TickNs
    /\ now' = now + TickNs
    /\ mfp_hist' = MfpHist("tick", 0, 0)
    /\ UNCHANGED <<mfp, kbdvars, regs, vbl_timer, irq, mode, width, height,
                   depth, palette_current, color_palette, dirty, surface,
                   updates, drawn, snapshot, vram, host_big_endian, pixels,
                   resized, draw_func, dev, raised_by_vbl, written, captured,
                   invalidated, lut_written, last>>

Due(t) == t.pending /\ ~t.forever /\ now >= t.expire

\* Variant: the expiry sets the pending bit whether enabled or not.
TimerPendingAlways(ipr, bit, ier) == BitOr(ipr, bit)

\* The pending register after the expiry of the timer with the bit given.
TimerPending(ipr, bit, ier) == BitOr(ipr, BitAnd(bit, ier))

\* The callbacks of the three timers.
mfp_timer_a ==
    /\ Due(mfp.timer_a)
    /\ LET n == [mfp.regs EXCEPT ![MFP_REG_IPRA] =
                     TimerPending(@, IRA_TIMER_A, mfp.regs[MFP_REG_IERA])]
       IN  mfp' = [mfp EXCEPT !.regs = n, !.irq = mfp_update_irq(n),
                              !.timer_a = mfp_reset_timer_a(n)]
    /\ mfp_hist' = MfpHist("timer_a", MFP_REG_IPRA, 0)
    /\ UNCHANGED <<fbvars, kbdvars>>

mfp_timer_b ==
    /\ Due(mfp.timer_b)
    /\ LET n == [mfp.regs EXCEPT ![MFP_REG_IPRA] =
                     TimerPending(@, IRA_TIMER_B, mfp.regs[MFP_REG_IERA])]
       IN  mfp' = [mfp EXCEPT !.regs = n, !.irq = mfp_update_irq(n),
                              !.timer_b = mfp_reset_timer_b(n)]
    /\ mfp_hist' = MfpHist("timer_b", MFP_REG_IPRA, 0)
    /\ UNCHANGED <<fbvars, kbdvars>>

mfp_timer_c ==
    /\ Due(mfp.timer_c)
    /\ LET n == [mfp.regs EXCEPT ![MFP_REG_IPRB] =
                     TimerPending(@, IRB_TIMER_C, mfp.regs[MFP_REG_IERB])]
       IN  mfp' = [mfp EXCEPT !.regs = n, !.irq = mfp_update_irq(n),
                              !.timer_c = mfp_reset_timer_cd(n)]
    /\ mfp_hist' = MfpHist("timer_c", MFP_REG_IPRB, 0)
    /\ UNCHANGED <<fbvars, kbdvars>>

\* The pending bit of GPIP line given in IPRA and in IPRB.
GpipMaskA(line) == IF line >= 6 THEN 2 ^ line ELSE 0
GpipMaskB(line) == IF line <= 3 THEN 2 ^ line ELSE IF line <= 5 THEN 2 ^ (line + 2)
                  ELSE 0

\* The line of the GPIP given changes to level.
mfp_gpip_irq(line, level) ==
    LET r == mfp.regs
        n == IF level # 0
             THEN [r EXCEPT ![MFP_REG_GPDR] = BitClear(@, 2 ^ line),
                            ![MFP_REG_IPRA] =
                                BitOr(@, BitAnd(GpipMaskA(line),
                                                r[MFP_REG_IERA])),
                            ![MFP_REG_IPRB] =
                                BitOr(@, BitAnd(GpipMaskB(line),
                                                r[MFP_REG_IERB]))]
             ELSE [r EXCEPT ![MFP_REG_GPDR] = BitOr(@, 2 ^ line),
                            ![MFP_REG_IPRA] = BitClear(@, GpipMaskA(line)),
                            ![MFP_REG_IPRB] = BitClear(@, GpipMaskB(line))]
    IN  [mfp EXCEPT !.regs = n, !.irq = mfp_update_irq(n)]

MfpGpip ==
    /\ \E line \in GpipLines : \E level \in {0, 1} :
          /\ mfp' = mfp_gpip_irq(line, level)
          /\ mfp_hist' = MfpHist(IF level # 0 THEN "gpip_on" ELSE "gpip_off",
                                 line, level)
    /\ UNCHANGED <<fbvars, kbdvars>>

\* The reset of the machine: the registers are cleared, the timers are not
\* touched.
mfp_reset ==
    /\ LET n == [i \in 0 .. MFP_REG_UDR |-> 0]
       IN  mfp' = [mfp EXCEPT !.regs = n, !.irq = mfp_update_irq(n)]
    /\ mfp_hist' = MfpHist("reset", 0, 0)
    /\ UNCHANGED <<fbvars, kbdvars>>

\* The keyboard controller and the MFP after the reset of the machine.
PeriphInit ==
    /\ kbd = KbdPowerOn
    /\ kbd_hist = KbdHistReset("none", 0, -1)
    /\ mfp = MfpPowerOn
    /\ mfp_hist = MfpHist("none", 0, 0)

\* ----------------------------------------------------------------- dirty log

\* The log of one memory region: every byte dirty (full), or the bytes of
\* the set.
CleanLog == [full |-> FALSE, bytes |-> {}]

memory_region_set_dirty(log, addr, size) ==
    IF addr = 0 /\ size >= ATARISTFB_VRAM_SIZE
    THEN [full |-> TRUE, bytes |-> {}]
    ELSE IF log.full THEN log
    ELSE [log EXCEPT !.bytes = @ \cup (addr .. addr + size - 1)]

memory_region_snapshot_get_dirty(snap, addr, len) ==
    \/ snap.full /\ len > 0 /\ addr < ATARISTFB_VRAM_SIZE
    \/ \E a \in snap.bytes : addr <= a /\ a < addr + len

\* Variant: only the first byte of the range is looked up.
check_dirty_first_byte(snap, addr, len) ==
    memory_region_snapshot_get_dirty(snap, addr, 1)

atarifb_check_dirty(snap, addr, len) ==
    memory_region_snapshot_get_dirty(snap, addr, len)

atarifb_invalidate_display(log) ==
    memory_region_set_dirty(log, 0, ATARISTFB_VRAM_SIZE)

\* A step that is no redraw pass takes no snapshot, decodes no scanline and
\* makes no notification.
NoOutput ==
    /\ updates' = <<>>
    /\ drawn' = {}
    /\ snapshot' = CleanLog
    /\ resized' = FALSE
    /\ draw_func' = "none"
    /\ UNCHANGED <<host_big_endian, pixels, dev, periph>>

\* ------------------------------------------------------------------- attach

\* s->mode before atarifb_find_mode has set it, and its result when no entry
\* matches: NULL.
NullMode == [depth |-> 0, width |-> 0, height |-> 0, stride |-> 0]

\* Variant: the first entry is returned whatever is asked for.
find_mode_first(w, h, d) == atarifb_mode_table[1]

\* The first entry of the table with the width, height and depth given.
atarifb_find_mode(w, h, d) ==
    LET hits == {i \in 1 .. Len(atarifb_mode_table) :
                    /\ w = atarifb_mode_table[i].width
                    /\ h = atarifb_mode_table[i].height
                    /\ d = atarifb_mode_table[i].depth}
    IN  IF hits = {} THEN NullMode
        ELSE atarifb_mode_table[CHOOSE i \in hits : \A j \in hits : i <= j]

\* Values of the width, height and depth properties, and bits per pixel of
\* the host surface.  The height the table lists is FbHeight here.
PropWidths == {1280, 1290, 1280 + 65536, 0}
PropHeights == {FbHeight, FbHeight + 65536, 0}
PropDepths == {1, 2, 4, 8, 3, 16}
HostBpps == {32, 16}

\* What a successful atarifb_common_realize leaves behind.
Realized ==
    [realized |-> "ok", errp |-> "none", host_bpp |-> 32,
     created |-> {"console", "mem_ctrl", "mem_vram", "vbl_timer"}]

\* atarifb_common_realize succeeded: the mode was found in the table and
\* atarifb_update_mode copied it and invalidated the display.
Init ==
    /\ regs = [i \in RegIdx |-> 0]
    /\ vbl_timer = -1
    /\ irq = 0
    /\ now = 0
    /\ mode \in {atarifb_mode_table[i] : i \in 1 .. Len(atarifb_mode_table)}
    /\ width = mode.width
    /\ height = mode.height
    /\ depth = mode.depth
    /\ palette_current = 0
    /\ color_palette = [i \in PaletteIdx |-> 0]
    /\ dirty = atarifb_invalidate_display(CleanLog)
    /\ surface = <<640, 480>>
    /\ updates = <<>>
    /\ drawn = {}
    /\ snapshot = CleanLog
    /\ vram = [a \in VramIdx(mode.depth) |-> 0]
    /\ host_big_endian = FALSE
    /\ pixels = <<>>
    /\ resized = FALSE
    /\ draw_func = "none"
    /\ PeriphInit
    /\ dev = Realized
    /\ raised_by_vbl = FALSE
    /\ written = {}
    /\ captured = -1
    /\ invalidated = TRUE
    /\ lut_written = [i \in PaletteIdx |-> -1]
    /\ last = [op |-> "none", addr |-> 0, val |-> 0, prev |-> -1,
               after_full |-> FALSE]

\* ------------------------------------------------------------ VBL interrupt

atarifb_update_irq(r) ==
    IF BitAnd(r[DAFB_INTR_STAT \div 4], r[DAFB_INTR_MASK \div 4]) # 0
    THEN 1 ELSE 0

\* Variant: the expiry is not aligned to the VBL period.
next_vbl_unaligned(t) == t + DAFB_INTR_VBL_PERIOD_NS

atarifb_next_vbl(t) ==
    ((t + DAFB_INTR_VBL_PERIOD_NS) \div DAFB_INTR_VBL_PERIOD_NS)
        * DAFB_INTR_VBL_PERIOD_NS

\* Variant: the callback reschedules one period after the old expiry.
RescheduleFromExpiry == vbl_timer + DAFB_INTR_VBL_PERIOD_NS

\* The expiry the callback passes to timer_mod.
Reschedule == atarifb_next_vbl(now)

\* The timer callback: runs once the virtual clock has reached the expiry.
atarifb_vbl_timer ==
    /\ vbl_timer # -1
    /\ now >= vbl_timer
    /\ LET r == [regs EXCEPT ![DAFB_INTR_STAT \div 4] =
                                  BitOr(@, DAFB_INTR_VBL)]
       IN  /\ regs' = r
           /\ irq' = atarifb_update_irq(r)
           /\ raised_by_vbl' = (raised_by_vbl \/ atarifb_update_irq(r) = 1)
    /\ vbl_timer' = Reschedule
    /\ last' = Op("vbl", 0, 0)
    /\ NoOutput
    /\ UNCHANGED <<now, mode, width, height, depth, palette_current,
                   color_palette, dirty, surface, vram, written, captured,
                   invalidated, lut_written>>

\* ----------------------------------------------------------- register write

IsModeReg(addr) ==
    \/ addr = DAFB_MODE_VADDR1
    \/ addr = DAFB_MODE_VADDR2
    \/ addr \in DAFB_MODE_CTRL1 .. DAFB_MODE_CTRL1 + 3
    \/ addr \in DAFB_MODE_CTRL2 .. DAFB_MODE_CTRL2 + 3

VblEnabled(val) == BitAnd(val, DAFB_INTR_VBL) # 0

\* Variant: a mask without the VBL bit leaves the timer as it is.
MaskTimerNoDel(val) ==
    IF VblEnabled(val) THEN atarifb_next_vbl(now) ELSE vbl_timer

\* The timer after a write of val to DAFB_INTR_MASK: timer_mod or timer_del.
MaskTimer(val) ==
    IF VblEnabled(val) THEN atarifb_next_vbl(now) ELSE -1

\* A component write invalidates the display unless the cursor has moved
\* on to the first component of an entry.
LutInvalidates(cursor) == cursor % 3 # 0

\* Variant: the index register keeps all bits of the value written.
LutIndexCursorRaw(val) == val * 3

\* The cursor after a write of val to DAFB_LUT_INDEX.
LutIndexCursor(val) == (val % 256) * 3

\* Variant: the component is stored as written, beyond 8 bits.
LutStoreRaw(pal, cursor, val) == [pal EXCEPT ![cursor] = val]

\* Variant: the store reaches component 0 as well.
LutStoreMirror(pal, cursor, val) ==
    [pal EXCEPT ![cursor] = val % 256, ![0] = val % 256]

\* The palette after a write of val to DAFB_LUT with the cursor given.
LutStore(pal, cursor, val) == [pal EXCEPT ![cursor] = val % 256]

\* Variant: the default branch stores the low byte of the value.
DefaultStoreByte(r, addr, val) ==
    IF addr < ATARISTFB_CTRL_TOPADDR
    THEN [r EXCEPT ![addr \div 4] = val % 256] ELSE r

\* The register file after a write that reaches the default branch.
DefaultStore(r, addr, val) ==
    IF addr < ATARISTFB_CTRL_TOPADDR
    THEN [r EXCEPT ![addr \div 4] = val] ELSE r

\* Variant: the acknowledge clears the interrupt mask as well.
AckRegsClearsMask(r) ==
    [r EXCEPT ![DAFB_INTR_STAT \div 4] = BitClear(@, DAFB_INTR_VBL),
              ![DAFB_INTR_MASK \div 4] = 0]

\* The register file after a write to DAFB_INTR_CLEAR.
AckRegs(r) ==
    [r EXCEPT ![DAFB_INTR_STAT \div 4] = BitClear(@, DAFB_INTR_VBL)]

atarifb_ctrl_write(addr, val) ==
    /\ CASE IsModeReg(addr) ->
              /\ regs' = [regs EXCEPT ![addr \div 4] = val]
              /\ UNCHANGED <<vbl_timer, irq, palette_current, color_palette,
                             dirty, invalidated>>
         [] addr = DAFB_INTR_MASK ->
              /\ regs' = [regs EXCEPT ![addr \div 4] = val]
              /\ vbl_timer' = MaskTimer(val)
              /\ UNCHANGED <<irq, palette_current, color_palette, dirty,
                             invalidated>>
         [] addr = DAFB_INTR_CLEAR ->
              LET r == AckRegs(regs)
              IN  /\ regs' = r
                  /\ irq' = atarifb_update_irq(r)
                  /\ UNCHANGED <<vbl_timer, palette_current, color_palette,
                                 dirty, invalidated>>
         [] addr = DAFB_LUT_INDEX ->
              /\ palette_current' = LutIndexCursor(val)
              /\ UNCHANGED <<regs, vbl_timer, irq, color_palette, dirty,
                             invalidated>>
         [] addr \in DAFB_LUT .. DAFB_LUT + 3 ->
              LET cursor == (palette_current + 1) % PALETTE_BYTES
              IN  /\ color_palette' = LutStore(color_palette, palette_current, val)
                  /\ palette_current' = cursor
                  /\ dirty' = IF LutInvalidates(cursor)
                              THEN atarifb_invalidate_display(dirty)
                              ELSE dirty
                  /\ invalidated' = (invalidated \/ LutInvalidates(cursor))
                  /\ UNCHANGED <<regs, vbl_timer, irq>>
         [] OTHER ->
              /\ regs' = DefaultStore(regs, addr, val)
              /\ UNCHANGED <<vbl_timer, irq, palette_current, color_palette,
                             dirty, invalidated>>
    /\ raised_by_vbl' = (raised_by_vbl /\ addr # DAFB_INTR_CLEAR)
    /\ lut_written' = IF addr \in DAFB_LUT .. DAFB_LUT + 3
                      THEN [lut_written EXCEPT ![palette_current] = val]
                      ELSE lut_written
    /\ last' = Op("write", addr, val)
    /\ NoOutput
    /\ UNCHANGED <<now, mode, width, height, depth, surface, vram, written,
                   captured>>

\* ------------------------------------------------------------ register read

\* Variant: offsets outside the case labels read as 0.
ctrl_read_no_default(addr) ==
    IF addr \in {DAFB_MODE_VADDR1, DAFB_MODE_VADDR2, DAFB_MODE_CTRL1,
                 DAFB_MODE_CTRL2, DAFB_INTR_STAT}
    THEN regs[addr \div 4]
    ELSE IF addr \in DAFB_LUT .. DAFB_LUT + 3
    THEN color_palette[palette_current]
    ELSE 0

\* The value a read of addr returns.
atarifb_ctrl_read(addr) ==
    IF addr \in {DAFB_MODE_VADDR1, DAFB_MODE_VADDR2, DAFB_MODE_CTRL1,
                 DAFB_MODE_CTRL2, DAFB_INTR_STAT}
    THEN regs[addr \div 4]
    ELSE IF addr \in DAFB_LUT .. DAFB_LUT + 3
    THEN color_palette[palette_current]
    ELSE IF addr < ATARISTFB_CTRL_TOPADDR THEN regs[addr \div 4] ELSE 0

\* The read handler: the value returned is recorded in last.val; a read of
\* the palette data register moves the cursor on.
CtrlRead(addr) ==
    /\ last' = Op("read", addr, atarifb_ctrl_read(addr))
    /\ palette_current' = IF addr \in DAFB_LUT .. DAFB_LUT + 3
                          THEN (palette_current + 1) % PALETTE_BYTES
                          ELSE palette_current
    /\ NoOutput
    /\ UNCHANGED <<regs, vbl_timer, irq, now, mode, width, height, depth,
                   color_palette, dirty, surface, vram, written, captured,
                   invalidated, raised_by_vbl, lut_written>>

\* ----------------------------------------------------------------- decoders

\* Inputs of the decoders: palettes (all components 0, and two ramps in
\* which every entry differs from every other) and contents of the first
\* groups of scanline 0 (all bits 0, all bits 1, two byte ramps and the
\* leftmost bit alone).
DecPalettes ==
    {[i \in 0 .. PALETTE_BYTES - 1 |-> 0]}
        \cup {[i \in 0 .. PALETTE_BYTES - 1 |-> (i + c) % 256] : c \in {0, 85}}

DecPatterns(d) ==
    {[a \in VramIdx(d) |-> 0], [a \in VramIdx(d) |-> 255],
     [a \in VramIdx(d) |-> IF a = 0 THEN 128 ELSE 0]}
        \cup {[a \in VramIdx(d) |-> (a * m + 11) % 256] : m \in {37, 101}}

\* rgb_to_pixel32 of ui/pixel_ops.h: (r << 16) | (g << 8) | b.  The
\* arguments are at most 255 << 2, so the result stays below 2^26 and the
\* 32-bit arithmetic of the source does not wrap.
rgb_to_pixel32(r, g, b) == BitOr(BitOr(r * 65536, g * 256), b)

\* *(const uint16_t *)&s->vram[a]: a 16-bit load in host byte order.
HostWord(mem, a) ==
    IF host_big_endian THEN mem[a] * 256 + mem[a + 1]
    ELSE mem[a] + mem[a + 1] * 256

\* 0x8000 >> (i % 16), for the loop counter i = 8 .. 23.
LineMask(i) == 32768 \div (2 ^ (i % 16))

\* Pixels a decoder writes for a width w: 16 per iteration of the loop
\* over x = 0, 16, .. < w.
LinePixels(w) == 16 * ((w + 15) \div 16)

\* The pixel of palette entry idx: the three components, each shifted left
\* by two.
PaletteColor(pal, idx) ==
    rgb_to_pixel32(pal[idx * 3] * 4, pal[idx * 3 + 1] * 4,
                   pal[idx * 3 + 2] * 4)

\* The index the planes p[0] .. p[planes - 1] at address a give under mask.
RECURSIVE PlaneIndex(_, _, _, _)
PlaneIndex(mem, a, mask, planes) ==
    IF planes = 0 THEN 0
    ELSE (IF BitAnd(HostWord(mem, a + 2 * (planes - 1)), mask) # 0
          THEN 2 ^ (planes - 1) ELSE 0)
         + PlaneIndex(mem, a, mask, planes - 1)

\* mono: a set bit is black, a clear bit is white.
atarifb_draw_line1(mem, pal, addr, w) ==
    [n \in 1 .. LinePixels(w) |->
        LET a == (addr + 2 * ((n - 1) \div 16)) % ATARISTFB_VRAM_SIZE
            mask == LineMask(8 + ((n - 1) % 16))
        IN  IF BitAnd(HostWord(mem, a), mask) # 0
            THEN rgb_to_pixel32(0, 0, 0)
            ELSE rgb_to_pixel32(255, 255, 255)]

atarifb_draw_line2(mem, pal, addr, w) ==
    [n \in 1 .. LinePixels(w) |->
        LET a == (addr + 4 * ((n - 1) \div 16)) % ATARISTFB_VRAM_SIZE
            mask == LineMask(8 + ((n - 1) % 16))
        IN  PaletteColor(pal, PlaneIndex(mem, a, mask, 2))]

atarifb_draw_line4(mem, pal, addr, w) ==
    [n \in 1 .. LinePixels(w) |->
        LET a == (addr + 8 * ((n - 1) \div 16)) % ATARISTFB_VRAM_SIZE
            mask == LineMask(8 + ((n - 1) % 16))
        IN  PaletteColor(pal, PlaneIndex(mem, a, mask, 4))]

atarifb_draw_line8(mem, pal, addr, w) ==
    [n \in 1 .. LinePixels(w) |->
        LET a == (addr + 16 * ((n - 1) \div 16)) % ATARISTFB_VRAM_SIZE
            mask == LineMask(8 + ((n - 1) % 16))
        IN  PaletteColor(pal, PlaneIndex(mem, a, mask, 8))]

\* The decoder atarifb_draw_graphic selects for depth d.
atarifb_draw_line(d, mem, pal, addr, w) ==
    CASE d = 1 -> atarifb_draw_line1(mem, pal, addr, w)
      [] d = 2 -> atarifb_draw_line2(mem, pal, addr, w)
      [] d = 4 -> atarifb_draw_line4(mem, pal, addr, w)
      [] d = 8 -> atarifb_draw_line8(mem, pal, addr, w)

\* ------------------------------------------------------------------- redraw

\* Variant: a closed run is not forgotten (ymin is not set back to -1).
DrawLineKeepsRun(y, w, stride, snap, st) ==
    IF atarifb_check_dirty(snap, y * stride, stride)
    THEN [st EXCEPT !.lines = @ \cup {y},
                    !.ymin = IF @ < 0 THEN y ELSE @]
    ELSE IF st.ymin >= 0
         THEN [st EXCEPT !.upd = Append(@, [x |-> 0, y |-> st.ymin, w |-> w,
                                            h |-> y - st.ymin])]
         ELSE st

\* Variant: only the first scanline of a run is decoded.
DrawLineFirstOnly(y, w, stride, snap, st) ==
    IF atarifb_check_dirty(snap, y * stride, stride)
    THEN [st EXCEPT !.lines = IF st.ymin < 0 THEN @ \cup {y} ELSE @,
                    !.ymin = IF @ < 0 THEN y ELSE @]
    ELSE IF st.ymin >= 0
         THEN [st EXCEPT !.upd = Append(@, [x |-> 0, y |-> st.ymin, w |-> w,
                                            h |-> y - st.ymin]),
                         !.ymin = -1]
         ELSE st

\* One iteration of the scanline loop of atarifb_draw_graphic: st holds
\* ymin (the start of the open run, -1: none), the notifications made and the
\* scanlines decoded so far.
DrawLine(y, w, stride, snap, st) ==
    IF atarifb_check_dirty(snap, y * stride, stride)
    THEN [st EXCEPT !.lines = @ \cup {y},
                    !.ymin = IF @ < 0 THEN y ELSE @]
    ELSE IF st.ymin >= 0
         THEN [st EXCEPT !.upd = Append(@, [x |-> 0, y |-> st.ymin, w |-> w,
                                            h |-> y - st.ymin]),
                         !.ymin = -1]
         ELSE st

\* The iterations y, y + 1, .. h - 1 of the loop, started in state st.
RECURSIVE DrawLines(_, _, _, _, _, _)
DrawLines(y, h, w, stride, snap, st) ==
    IF y >= h THEN st
    ELSE DrawLines(y + 1, h, w, stride, snap,
                   DrawLine(y, w, stride, snap, st))

\* The loop over the scanlines 0 .. h - 1 and the notification of the run
\* still open after it.
atarifb_draw_graphic(h, w, stride, snap) ==
    LET st == DrawLines(0, h, w, stride, snap,
                        [ymin |-> -1, upd |-> <<>>, lines |-> {}])
    IN  IF st.ymin >= 0
        THEN [upd |-> Append(st.upd, [x |-> 0, y |-> st.ymin, w |-> w,
                                      h |-> h - st.ymin]),
              lines |-> st.lines]
        ELSE [upd |-> st.upd, lines |-> st.lines]

\* memory_region_snapshot_and_clear_dirty over the whole region: the
\* snapshot is the live log, which is left clean.
SnapshotClears(log) == CleanLog

\* Variant: the console is never resized.
NeverResize(surf, w, h) == FALSE

\* The test that guards qemu_console_resize.
NeedResize(surf, w, h) == w # surf[1] \/ h # surf[2]

\* Variant: no decoder for depth 8.
SelectDecoderNo8(d) ==
    CASE d = 1 -> "atarifb_draw_line1"
      [] d = 2 -> "atarifb_draw_line2"
      [] d = 4 -> "atarifb_draw_line4"
      [] OTHER -> "NULL"

\* The routine the switch of atarifb_draw_graphic selects; the assertion
\* that follows fails on NULL.
SelectDecoder(d) ==
    CASE d = 1 -> "atarifb_draw_line1"
      [] d = 2 -> "atarifb_draw_line2"
      [] d = 4 -> "atarifb_draw_line4"
      [] d = 8 -> "atarifb_draw_line8"
      [] OTHER -> "NULL"

\* The gfx_update hook, with the live log left as `live` by the snapshot.
\* The scanlines the pass decodes are recorded in drawn; the pixels a
\* decoder writes are followed by DrawScanline.
UpdateDisplay(live) ==
    /\ IF width = 0 \/ height = 0
       THEN /\ NoOutput
            /\ UNCHANGED <<dirty, surface, written, captured, invalidated>>
       ELSE LET res == atarifb_draw_graphic(height, width, mode.stride, dirty)
            IN  /\ surface' = IF NeedResize(surface, width, height)
                               THEN <<width, height>> ELSE surface
                /\ resized' = NeedResize(surface, width, height)
                /\ draw_func' = SelectDecoder(depth)
                /\ snapshot' = dirty
                /\ dirty' = live
                /\ updates' = res.upd
                /\ drawn' = res.lines
                /\ written' = {}
                /\ captured' \in written \cup {captured}
                /\ invalidated' = FALSE
                /\ UNCHANGED <<host_big_endian, pixels, dev, periph>>
    /\ last' = Op("draw", 0, 0)
    /\ UNCHANGED <<regs, vbl_timer, irq, now, mode, width, height, depth,
                   palette_current, color_palette, vram, raised_by_vbl,
                   lut_written>>

\* Variant: the snapshot leaves the live log as it is.
UpdateDisplayNoClear == UpdateDisplay(dirty)

atarifb_update_display == UpdateDisplay(SnapshotClears(dirty))

\* The invalidate hook of the console.
InvalidateDisplay ==
    /\ dirty' = atarifb_invalidate_display(dirty)
    /\ invalidated' = TRUE
    /\ last' = Op("invalidate", 0, 0)
    /\ NoOutput
    /\ UNCHANGED <<regs, vbl_timer, irq, now, mode, width, height, depth,
                   palette_current, color_palette, surface, vram, written,
                   captured, raised_by_vbl, lut_written>>

\* -------------------------------------------------------------------- reset

\* Byte i of a built-in palette: zero beyond the initialised entries.
TableByte(t, i) == IF i < Len(t) THEN t[i + 1] ELSE 0

\* Variant: the palette is cleared at every depth.
DefaultPaletteMono(d) == [i \in DOMAIN color_palette |-> 0]

\* The palette atarifb_reset installs for depth d, over the components the
\* model follows.
DefaultPalette(d) ==
    CASE d = 2 -> [i \in DOMAIN color_palette |-> TableByte(st_2_palette, i)]
      [] d = 4 -> [i \in DOMAIN color_palette |-> TableByte(st_4_palette, i)]
      [] d = 8 -> [i \in DOMAIN color_palette |-> TableByte(st_8_palette, i)]
      [] OTHER -> [i \in DOMAIN color_palette |-> 0]

atarifb_reset ==
    /\ palette_current' = 0
    /\ color_palette' = DefaultPalette(mode.depth)
    /\ vram' = [a \in DOMAIN vram |-> 0]
    /\ lut_written' = [i \in PaletteIdx |-> -1]
    /\ dirty' = atarifb_invalidate_display(dirty)
    /\ invalidated' = TRUE
    /\ last' = Op("reset", 0, 0)
    /\ NoOutput
    /\ UNCHANGED <<regs, vbl_timer, irq, now, mode, width, height, depth,
                   surface, written, captured, raised_by_vbl>>

\* --------------------------------------------------------------- environment

\* The virtual clock advances; a due timer callback may run late.
Tick ==
    /\ now + TickNs <= MaxTime
    /\ now' = now + TickNs
    /\ last' = Op("tick", 0, 0)
    /\ NoOutput
    /\ UNCHANGED <<regs, vbl_timer, irq, mode, width, height, depth,
                   palette_current, color_palette, dirty, surface, vram,
                   written, captured, invalidated, raised_by_vbl,
                   lut_written>>

\* A guest store to one byte of video memory, logged by the memory core.
\* The bytes stored to lie outside scanline 0.
VramWrite ==
    \E a \in VramAddrs(mode) :
        /\ dirty' = memory_region_set_dirty(dirty, a, 1)
        /\ written' = written \cup {a}
        /\ UNCHANGED captured
        /\ last' = Op("vram", 0, 0)
        /\ NoOutput
        /\ UNCHANGED <<regs, vbl_timer, irq, now, mode, width, height, depth,
                       palette_current, color_palette, surface, vram,
                       invalidated, raised_by_vbl, lut_written>>

RegWrite ==
    \E addr \in RegAddrs : \E val \in WriteVals(addr) :
        atarifb_ctrl_write(addr, val)

\* A palette access; the cursor is followed up to MaxLutCursor.
LutWrite ==
    \E addr \in LutAddrs : \E val \in LutVals(addr) :
        /\ addr = DAFB_LUT_INDEX => (val % 256) * 3 <= MaxLutCursor
        /\ addr # DAFB_LUT_INDEX => palette_current < MaxLutCursor
        /\ atarifb_ctrl_write(addr, val)

\* The scanline loop of atarifb_draw_graphic decodes scanline 0 into the
\* surface, over the first DecWidth pixels.
DrawScanline ==
    /\ pixels' = atarifb_draw_line(depth, vram, color_palette, 0, DecWidth)
    /\ last' = Op("decode", 0, 0)
    /\ updates' = <<>>
    /\ drawn' = {0}
    /\ snapshot' = CleanLog
    /\ resized' = FALSE
    /\ draw_func' = SelectDecoder(depth)
    /\ UNCHANGED <<dev, periph>>
    /\ UNCHANGED <<regs, vbl_timer, irq, now, mode, width, height, depth,
                   palette_current, color_palette, dirty, surface, vram,
                   host_big_endian, written, captured, invalidated,
                   raised_by_vbl, lut_written>>

\* The register block, the VBL timer and the interrupt line.
Next ==
    \/ RegWrite
    \/ atarifb_vbl_timer
    \/ Tick

Spec == Init /\ [][Next]_vars

\* The frame buffer: video memory stores, palette accesses, redraw passes,
\* invalidation and reset.
NextFb ==
    \/ VramWrite
    \/ LutWrite
    \/ atarifb_update_display
    \/ InvalidateDisplay
    \/ atarifb_reset

SpecFb == Init /\ [][NextFb]_vars

\* A write or a read of the control block; the cursor is followed up to
\* MaxLutCursor.
IoWrite ==
    \E addr \in IoAddrs : \E val \in IoVals(addr) :
        /\ addr = DAFB_LUT_INDEX => (val % 256) * 3 <= MaxLutCursor
        /\ addr = DAFB_LUT => palette_current < MaxLutCursor
        /\ atarifb_ctrl_write(addr, val)

IoRead ==
    \E addr \in IoAddrs :
        /\ addr = DAFB_LUT => palette_current < MaxLutCursor
        /\ CtrlRead(addr)

\* The control block as the guest sees it: register and palette writes
\* and reads, and reset.
NextIo ==
    \/ IoWrite
    \/ IoRead
    \/ atarifb_reset

SpecIo == Init /\ [][NextIo]_vars

\* The device before realize: the properties are set, nothing is created.
InitAttach ==
    /\ regs = [i \in RegIdx |-> 0]
    /\ vbl_timer = -1
    /\ irq = 0
    /\ now = 0
    /\ mode = NullMode
    /\ width \in PropWidths
    /\ height \in PropHeights
    /\ depth \in PropDepths
    /\ palette_current = 0
    /\ color_palette = [i \in PaletteIdx |-> 0]
    /\ dirty = CleanLog
    /\ surface = <<640, 480>>
    /\ updates = <<>>
    /\ drawn = {}
    /\ snapshot = CleanLog
    /\ vram = <<>>
    /\ host_big_endian = FALSE
    /\ pixels = <<>>
    /\ resized = FALSE
    /\ draw_func = "none"
    /\ PeriphInit
    /\ \E bpp \in HostBpps :
           dev = [realized |-> "no", errp |-> "none", host_bpp |-> bpp,
                  created |-> {}]
    /\ raised_by_vbl = FALSE
    /\ written = {}
    /\ captured = -1
    /\ invalidated = FALSE
    /\ lut_written = [i \in PaletteIdx |-> -1]
    /\ last = [op |-> "none", addr |-> 0, val |-> 0, prev |-> -1,
               after_full |-> FALSE]

\* atarifb_common_realize, with atarifb_update_mode at its end.  The width
\* and the height reach atarifb_find_mode as uint16_t, the depth as uint8_t.
atarifb_common_realize ==
    /\ dev.realized = "no"
    /\ LET m == atarifb_find_mode(width % 65536, height % 65536, depth % 256)
       IN  /\ mode' = m
           /\ IF m = NullMode
              THEN /\ dev' = [dev EXCEPT !.realized = "failed",
                                         !.errp = "unknown display mode"]
                   /\ UNCHANGED <<width, height, depth, dirty, vram,
                                  invalidated>>
              ELSE IF dev.host_bpp # 32
              THEN /\ dev' = [dev EXCEPT !.realized = "failed",
                                         !.errp = "unknown host depth",
                                         !.created = {"console"}]
                   /\ UNCHANGED <<width, height, depth, dirty, vram,
                                  invalidated>>
              ELSE /\ dev' = [dev EXCEPT !.realized = "ok",
                                         !.created = Realized.created]
                   /\ vram' = [a \in VramIdx(m.depth) |-> 0]
                   /\ width' = m.width
                   /\ height' = m.height
                   /\ depth' = m.depth
                   /\ dirty' = atarifb_invalidate_display(dirty)
                   /\ invalidated' = TRUE
    /\ last' = Op("realize", 0, 0)
    /\ UNCHANGED periph
    /\ updates' = <<>>
    /\ drawn' = {}
    /\ snapshot' = CleanLog
    /\ resized' = FALSE
    /\ draw_func' = "none"
    /\ UNCHANGED <<regs, vbl_timer, irq, now, palette_current, color_palette,
                   surface, host_big_endian, pixels, raised_by_vbl, written,
                   captured, lut_written>>

\* Offsets and values of the register writes of SpecAttach: the address
\* register and REG_WIDTH * 4.
AttachAddrs == {DAFB_MODE_VADDR1, REG_WIDTH * 4}

AttachVals(addr) == IF addr = DAFB_MODE_VADDR1 THEN {0, 100} ELSE {321}

\* The operations of a realized device.
AttachedWrite ==
    /\ dev.realized = "ok"
    /\ \E addr \in AttachAddrs : \E val \in AttachVals(addr) :
           atarifb_ctrl_write(addr, val)

AttachedRedraw == dev.realized = "ok" /\ atarifb_update_display

AttachedReset == dev.realized = "ok" /\ atarifb_reset

\* The life of a device: realize with any properties, then register
\* writes, redraw passes and resets.
NextAttach ==
    \/ atarifb_common_realize
    \/ AttachedWrite
    \/ AttachedRedraw
    \/ AttachedReset

SpecAttach == InitAttach /\ [][NextAttach]_vars

\* The decoders and reset: attached in any mode on a host of either byte
\* order, with the palette and the video memory as the guest left them.
InitDec ==
    /\ regs = [i \in RegIdx |-> 0]
    /\ vbl_timer = -1
    /\ irq = 0
    /\ now = 0
    /\ mode \in {atarifb_mode_table[i] : i \in 1 .. Len(atarifb_mode_table)}
    /\ width = mode.width
    /\ height = mode.height
    /\ depth = mode.depth
    /\ palette_current = 0
    /\ color_palette \in DecPalettes
    /\ dirty = atarifb_invalidate_display(CleanLog)
    /\ surface = <<640, 480>>
    /\ updates = <<>>
    /\ drawn = {}
    /\ snapshot = CleanLog
    /\ vram \in DecPatterns(mode.depth)
    /\ host_big_endian \in BOOLEAN
    /\ pixels = <<>>
    /\ resized = FALSE
    /\ draw_func = "none"
    /\ PeriphInit
    /\ dev = Realized
    /\ raised_by_vbl = FALSE
    /\ written = {}
    /\ captured = -1
    /\ invalidated = TRUE
    /\ lut_written = [i \in PaletteIdx |-> -1]
    /\ last = [op |-> "none", addr |-> 0, val |-> 0, prev |-> -1,
               after_full |-> FALSE]

NextDec ==
    \/ DrawScanline
    \/ atarifb_reset

SpecDec == InitDec /\ [][NextDec]_vars

\* The keyboard controller: key and pointer events, the sync that follows
\* pointer events, guest accesses and the reset of the machine.
NextKbd ==
    \/ KbdKey
    \/ MouseCodeBtn
    \/ MouseSync
    \/ KbdRead
    \/ KbdWriteCtrl
    \/ KbdWriteCmd
    \/ kbd_reset

InitKbd == Init /\ mode.depth = 4

SpecKbd == InitKbd /\ [][NextKbd]_vars

\* The pointer: relative motion, button events, the sync that follows it, reads of the
\* data register that drain the queue, and resets.
NextMouse ==
    \/ MouseRel
    \/ MousePacketBtn
    \/ MouseSync
    \/ KbdRead
    \/ kbd_reset

SpecMouse == InitKbd /\ [][NextMouse]_vars

\* The interrupt logic of the MFP: guest writes, expiries of timer A,
\* changes of the GPIP lines and the reset of the machine.
NextMfp ==
    \/ MfpIrqWrite
    \/ mfp_timer_a
    \/ MfpGpip
    \/ mfp_reset
    \/ MfpTick

SpecMfp == InitKbd /\ [][NextMfp]_vars

\* The timers of the MFP: writes to their registers, their expiries and
\* the virtual clock.
NextMfpTimer ==
    \/ MfpTimerWrite
    \/ mfp_timer_a
    \/ mfp_timer_b
    \/ mfp_timer_c
    \/ MfpTick

SpecMfpTimer == InitKbd /\ [][NextMfpTimer]_vars

\* =================================================================== claims

IsWrite(addr) == last.op = "write" /\ last.addr = addr

Mask == regs[DAFB_INTR_MASK \div 4]
Stat == regs[DAFB_INTR_STAT \div 4]

\* Bit 2 (DAFB_INTR_VBL) of v.
Bit2(v) == (v \div 4) % 2 = 1

\* C1: once a timer firing has raised the interrupt line, the line stays
\* asserted in every later state, across further firings and register
\* writes, until a write to the acknowledge register (DAFB_INTR_CLEAR).
C1_LineHeldUntilAck == raised_by_vbl => irq = 1

\* C5: whenever VADDR is not 0, the depth is one of 1, 2, 4, 8, the width is
\* a multiple of 16 within [320, 2048], the height is within [1, 2048] and
\* VADDR is even.
C5_GeometryValid ==
    atarifb_ctrl_read(DAFB_MODE_VADDR1) # 0 =>
        /\ depth \in {1, 2, 4, 8}
        /\ width % 16 = 0 /\ width >= 320 /\ width <= 2048
        /\ height >= 1 /\ height <= 2048
        /\ atarifb_ctrl_read(DAFB_MODE_VADDR1) % 2 = 0

\* C6: after a VADDR write made with an odd address, or with the WIDTH
\* register holding 321, the registers DEPTH, WIDTH, HEIGHT and VADDR all
\* read back as 0.
C6_RejectedVaddrReadsZero ==
    (/\ IsWrite(DAFB_MODE_VADDR1)
     /\ \/ last.val % 2 = 1
        \/ atarifb_ctrl_read(REG_WIDTH * 4) = 321) =>
        /\ atarifb_ctrl_read(DAFB_MODE_VADDR1) = 0
        /\ atarifb_ctrl_read(REG_DEPTH * 4) = 0
        /\ atarifb_ctrl_read(REG_WIDTH * 4) = 0
        /\ atarifb_ctrl_read(REG_HEIGHT * 4) = 0

C10_AckDeasserts == IsWrite(DAFB_INTR_CLEAR) => irq = 0

\* Scanlines with a dirty byte in the snapshot of the last pass.
DirtyLines ==
    {y \in 0 .. height - 1 :
        \/ snapshot.full
        \/ \E a \in snapshot.bytes : a \div mode.stride = y}

\* Scanline y lies in one of the notifications upd.
Covers(upd, y) ==
    \E i \in 1 .. Len(upd) : upd[i].y <= y /\ y < upd[i].y + upd[i].h

\* C2: the notifications of a redraw pass are the maximal runs of dirty
\* scanlines, one per run, in ascending order, neither overlapping nor
\* adjacent; for the dirty scanlines 2, 3, 4 and 7 they are the rows [2,5)
\* and [7,8).
C2_MaximalRuns ==
    last.op = "draw" =>
        /\ \A i \in 1 .. Len(updates) :
              LET u == updates[i]
              IN  /\ u.x = 0 /\ u.w = width /\ u.h >= 1
                  /\ \A y \in u.y .. u.y + u.h - 1 : y \in DirtyLines
                  /\ (u.y - 1) \notin DirtyLines
                  /\ (u.y + u.h) \notin DirtyLines
        /\ \A y \in DirtyLines :
              Cardinality({i \in 1 .. Len(updates) :
                              updates[i].y <= y
                              /\ y < updates[i].y + updates[i].h}) = 1
        /\ \A i \in 1 .. Len(updates) : \A j \in 1 .. Len(updates) :
              i < j => updates[i].y + updates[i].h < updates[j].y
        /\ DirtyLines = {2, 3, 4, 7} =>
              updates = << [x |-> 0, y |-> 2, w |-> width, h |-> 3],
                           [x |-> 0, y |-> 7, w |-> width, h |-> 1] >>

\* C2 witness: a pass over a frame of FbHeight scanlines found exactly the
\* scanlines 2, 3, 4 and 7 dirty.
C2_Witness ==
    /\ last.op = "draw"
    /\ height = FbHeight
    /\ DirtyLines = {2, 3, 4, 7}
    /\ Len(updates) = 2

\* C3: a redraw pass that redraws after an invalidation emits one
\* notification for the whole frame, and the pass directly after a pass that
\* redrew the whole frame decodes nothing and emits no notification.
C3_FullRedrawConsumed ==
    /\ (last.op = "draw" /\ snapshot.full) =>
           updates = <<[x |-> 0, y |-> 0, w |-> width, h |-> height]>>
    /\ (last.op = "draw" /\ last.after_full) =>
           (updates = <<>> /\ drawn = {})

\* C3 witness: a pass that came directly after a full redraw.
C3_Witness ==
    /\ last.op = "draw"
    /\ last.after_full
    /\ updates = <<>>

\* C4 as stated: a store captured by an earlier snapshot, to a scanline not
\* stored to since, is not reported by a later pass.
C4_CapturedNotReportedAgain ==
    [][(/\ last'.op = "draw"
        /\ captured # -1
        /\ \A a \in written :
              a \div mode.stride # captured \div mode.stride) =>
            ~Covers(updates', captured \div mode.stride)]_vars

\* C4 amended: a redraw pass reports every scanline of the frame stored to
\* since the previous snapshot, and reports a scanline only if it was stored
\* to since the previous snapshot or the display was invalidated since (a
\* red or green palette component write, a reset, an invalidate request, the
\* attach); a store captured earlier is not reported again otherwise.
C4_SnapshotReportsWrites ==
    [][last'.op = "draw" =>
          /\ \A a \in written :
                a < height * mode.stride =>
                    Covers(updates', a \div mode.stride)
          /\ \A y \in 0 .. height - 1 :
                Covers(updates', y) =>
                    \/ invalidated
                    \/ \E a \in written : a \div mode.stride = y
          /\ dirty' = CleanLog]_vars

\* C4 witness: a pass reported a store made after the previous snapshot and
\* did not report again the scanline of a store captured earlier.
C4_Witness ==
    /\ last.op = "draw"
    /\ ~snapshot.full
    /\ drawn # {}
    /\ captured # -1
    /\ captured \notin snapshot.bytes
    /\ (captured \div mode.stride) \notin drawn

\* C11: a write to the acknowledge register (DAFB_INTR_CLEAR) leaves the VBL
\* timer as it was: pending or not, the same expiry, and the same value in
\* the interrupt mask register.
C11_AckKeepsTimer ==
    [][(last'.op = "write" /\ last'.addr = DAFB_INTR_CLEAR) =>
          /\ vbl_timer' = vbl_timer
          /\ regs'[DAFB_INTR_MASK \div 4] = regs[DAFB_INTR_MASK \div 4]]_vars

\* C11 witness: the acknowledge was written while the timer was armed with a
\* firing due, and the timer is still armed.
C11_Witness ==
    /\ IsWrite(DAFB_INTR_CLEAR)
    /\ Bit2(Mask)
    /\ vbl_timer # -1
    /\ now >= vbl_timer

\* C12: a redraw pass made while the address register VADDR reads 0 decodes
\* no scanline, emits no notification and takes no snapshot.
C12_OffRedrawDoesNothing ==
    (last.op = "draw" /\ atarifb_ctrl_read(DAFB_MODE_VADDR1) = 0) =>
        /\ updates = <<>>
        /\ drawn = {}
        /\ snapshot = CleanLog

\* Every byte of the decoded part of scanline 0 is b.
AllBytes(b) == \A a \in DOMAIN vram : vram[a] = b

\* C13: a decoded scanline whose plane bits are all 0 has the pixel of
\* palette entry 0 in every position, and one whose plane bits are all 1
\* the pixel of palette entry 2^depth - 1, at every depth and for every
\* palette.
C13_UniformLines ==
    last.op = "decode" =>
        /\ AllBytes(0) =>
               \A n \in DOMAIN pixels :
                   pixels[n] = PaletteColor(color_palette, 0)
        /\ AllBytes(255) =>
               \A n \in DOMAIN pixels :
                   pixels[n] = PaletteColor(color_palette, 2 ^ depth - 1)

\* Bit n of w.
BitOf(w, n) == (w \div (2 ^ n)) % 2

\* The big-endian word of plane p in group g of scanline 0.
PlaneWord(g, p) ==
    vram[g * 2 * depth + 2 * p] * 256 + vram[g * 2 * depth + 2 * p + 1]

\* The index whose bit p is the bit of plane p at position k of group g,
\* positions counted from the most significant bit.
RECURSIVE PlanarIndex(_, _, _)
PlanarIndex(g, k, planes) ==
    IF planes = 0 THEN 0
    ELSE BitOf(PlaneWord(g, planes - 1), 15 - k) * 2 ^ (planes - 1)
         + PlanarIndex(g, k, planes - 1)

\* C14: at every depth the decoder writes exactly the pixels of the width
\* asked for, and the pixel at position k of group g is that of the palette
\* entry whose index has, in bit p, the bit of plane p's big-endian word at
\* position k counted from the most significant bit.
C14_PlanarOrder ==
    last.op = "decode" =>
        /\ Len(pixels) = DecWidth
        /\ \A g \in 0 .. DecGroups - 1 : \A k \in 0 .. 15 :
               pixels[16 * g + k + 1] =
                   PaletteColor(color_palette, PlanarIndex(g, k, depth))

\* addr is one of the offsets of the palette data register.
IsLut(addr) == addr \in DAFB_LUT .. DAFB_LUT + 3

C16_EntriesIndependent ==
    [][/\ (last'.op = "write" /\ IsLut(last'.addr)) =>
              \A c \in PaletteIdx :
                  c # palette_current => color_palette'[c] = color_palette[c]
       /\ (\/ last'.op = "read"
           \/ last'.op = "write" /\ ~IsLut(last'.addr)) =>
              color_palette' = color_palette]_vars

\* C16 witness: a component was written next to one written before and one
\* still 0.
C16_Witness ==
    /\ IsWrite(DAFB_LUT)
    /\ palette_current = 2
    /\ lut_written[0] # -1
    /\ color_palette[0] = 255 /\ color_palette[1] = 255
    /\ color_palette[2] = 0

\* The state of the device a guest access can reach.
DeviceState ==
    <<regs, vbl_timer, irq, palette_current, color_palette, dirty, vram,
      mode, width, height, depth>>

\* C17 as stated: no read changes the state of the device.
C17_ReadsChangeNothing ==
    [][last'.op = "read" => DeviceState' = DeviceState]_vars

\* C17 amended: a read below the top of the register file returns the word
\* stored in the register, which is the value a directly preceding write to
\* the same offset stored (the clear strobe aside); a read at or above the
\* top returns 0; these reads change nothing.  A read of the palette data
\* register returns the component under the cursor and moves the cursor on
\* by one, and changes nothing else.
C17_ReadReturnsStored ==
    [][last'.op = "read" =>
          /\ <<regs, vbl_timer, irq, color_palette, dirty, vram, mode, width,
               height, depth>>' =
             <<regs, vbl_timer, irq, color_palette, dirty, vram, mode, width,
               height, depth>>
          /\ IF IsLut(last'.addr)
             THEN /\ last'.val = color_palette[palette_current]
                  /\ palette_current' = (palette_current + 1) % PALETTE_BYTES
             ELSE /\ palette_current' = palette_current
                  /\ last'.val = IF last'.addr < ATARISTFB_CTRL_TOPADDR
                                 THEN regs[last'.addr \div 4] ELSE 0
          /\ (/\ last.op = "write" /\ last.addr = last'.addr
              /\ last.addr < ATARISTFB_CTRL_TOPADDR
              /\ last.addr # DAFB_INTR_CLEAR) =>
                 last'.val = last.val]_vars

\* C17 witness: the interrupt mask register, reached by the default branch,
\* was read back after it was written with 4.
C17_Witness ==
    /\ last.op = "read" /\ last.addr = DAFB_INTR_MASK
    /\ last.val = 4

\* C18 as stated: a write above the register file, and a palette write made
\* with an index of 256 or more, leave the registers, the palette, the timer
\* and the interrupt line as they were.
C18_OutOfRangeIgnored ==
    [][/\ (/\ last'.op = "write" /\ last'.addr >= ATARISTFB_CTRL_TOPADDR
           /\ last'.addr # DAFB_LUT_INDEX /\ ~IsLut(last'.addr)) =>
              <<regs, color_palette, vbl_timer, irq>>' =
              <<regs, color_palette, vbl_timer, irq>>
       /\ (/\ last.op = "write" /\ last.addr = DAFB_LUT_INDEX
           /\ last.val >= 256
           /\ last'.op = "write" /\ IsLut(last'.addr)) =>
              <<regs, color_palette, vbl_timer, irq>>' =
              <<regs, color_palette, vbl_timer, irq>>]_vars

\* C18 amended: a write at or above the top of the register file, the
\* palette registers aside, changes nothing.  The palette index register
\* keeps the low 8 bits of the value written, so that every value selects
\* one of the 256 entries, and the data write that follows is stored in the
\* entry selected; neither touches the registers, the timer or the line.
C18_IndexWraps ==
    [][/\ (/\ last'.op = "write" /\ last'.addr >= ATARISTFB_CTRL_TOPADDR
           /\ last'.addr # DAFB_LUT_INDEX /\ ~IsLut(last'.addr)) =>
              DeviceState' = DeviceState
       /\ (last'.op = "write" /\ last'.addr = DAFB_LUT_INDEX) =>
              /\ palette_current' = 3 * (last'.val % 256)
              /\ <<regs, color_palette, vbl_timer, irq>>' =
                 <<regs, color_palette, vbl_timer, irq>>
       /\ (last'.op = "write" /\ IsLut(last'.addr)) =>
              /\ color_palette'[palette_current] = last'.val % 256
              /\ <<regs, vbl_timer, irq>>' = <<regs, vbl_timer, irq>>]_vars

\* C18 witness: the index register was written with 256 after the cursor
\* had moved on, and the cursor is at entry 0.
C18_Witness ==
    /\ IsWrite(DAFB_LUT_INDEX) /\ last.val = 256
    /\ palette_current = 0
    /\ lut_written[1] # -1

\* C19: a write at an offset that is no multiple of 4 changes nothing in the
\* device, and a read at such an offset returns 0.
C19_MisalignedNoOp ==
    [][/\ (last'.op = "write" /\ last'.addr % 4 # 0) =>
              DeviceState' = DeviceState
       /\ \A a \in RegAddrs :
              a % 4 # 0 => atarifb_ctrl_read(a)' = 0]_vars

\* C20: directly after a reset every register of the bank reads 0 and the
\* VBL timer is idle, as at attach.
C20_ResetClearsRegisters ==
    last.op = "reset" =>
        /\ \A i \in RegIdx : regs[i] = 0
        /\ vbl_timer = -1

\* C21: directly after a reset the whole palette holds the built-in table of
\* the depth (all components 0 at depth 1; at depth 2 white, red, green,
\* black and 0 beyond), whatever it held before, and the cursor is 0.
C21_ResetInstallsDefaults ==
    last.op = "reset" =>
        /\ palette_current = 0
        /\ DOMAIN color_palette = 0 .. PALETTE_BYTES - 1
        /\ \A i \in 0 .. PALETTE_BYTES - 1 :
               color_palette[i] =
                   CASE depth = 1 -> 0
                     [] depth = 2 -> TableByte(st_2_palette, i)
                     [] depth = 4 -> TableByte(st_4_palette, i)
                     [] depth = 8 -> TableByte(st_8_palette, i)
        /\ depth = 2 =>
               /\ <<color_palette[3], color_palette[4], color_palette[5]>>
                      = <<255, 0, 0>>
               /\ \A i \in 9 .. PALETTE_BYTES - 1 : color_palette[i] = 0

\* C21 witness: a reset at depth 8 after a scanline was decoded with the
\* palette of the guest, none of which is the built-in one.
C21_Witness ==
    /\ last.op = "reset"
    /\ depth = 8
    /\ pixels # <<>>
    /\ color_palette[0] = 255

\* C26: no operation of the device changes the contents of video memory.
C26_VramNeverWritten ==
    [][last'.op # "vram" => vram' = vram]_vars

\* C23: in a redraw pass the stride is width * depth / 8, a scanline is
\* decoded if and only if the snapshot marks a byte of its stride dirty or
\* the whole frame was marked, and the rows of the notifications are
\* exactly the decoded scanlines.
C23_DecodedIffDirty ==
    last.op = "draw" =>
        /\ mode.stride = (width * depth) \div 8
        /\ \A y \in 0 .. height - 1 :
               /\ y \in drawn <=>
                      \/ snapshot.full
                      \/ \E a \in snapshot.bytes :
                             y * mode.stride <= a /\ a < (y + 1) * mode.stride
               /\ Covers(updates, y) <=> y \in drawn
        /\ \A i \in 1 .. Len(updates) :
               updates[i].y >= 0 /\ updates[i].y + updates[i].h <= height

\* C23 witness: a pass that decoded scanlines 3 and 4 of a run and left
\* scanline 2 alone.
C23_Witness ==
    /\ last.op = "draw"
    /\ {3, 4} \subseteq drawn
    /\ 2 \notin drawn
    /\ ~snapshot.full

\* C25: a redraw pass resizes the console if and only if the size of the
\* surface differs from (width, height), and the notifications of the pass
\* are made with the surface at (width, height).
C25_ResizeIffDiffers ==
    [][last'.op = "draw" =>
          /\ resized' <=> surface # <<width, height>>
          /\ surface' = <<width', height'>>
          /\ <<width', height'>> = <<width, height>>]_vars

\* C25 witness: the pass that resized the console and reported scanlines.
C25_Witness ==
    /\ last.op = "draw"
    /\ resized
    /\ updates # <<>>
    /\ surface = <<width, height>>

\* C27: a write to REG_WIDTH * 4 or to DAFB_INTR_STAT stores the value in
\* that register and leaves every other register, the palette and its
\* cursor, the timer, the interrupt line, the mode and the dirty log as
\* they were.
C27_PlainStore ==
    [][(last'.op = "write" /\ last'.addr \in {REG_WIDTH * 4, DAFB_INTR_STAT})
          => /\ regs' = [regs EXCEPT ![last'.addr \div 4] = last'.val]
             /\ UNCHANGED <<vbl_timer, irq, palette_current, color_palette,
                            dirty, invalidated, mode, width, height, depth,
                            vram, surface>>]_vars

\* C27 witness: 321 was written to REG_WIDTH * 4 while the timer was armed.
C27_Witness ==
    /\ IsWrite(REG_WIDTH * 4)
    /\ last.val = 321
    /\ regs[REG_WIDTH] = 321
    /\ vbl_timer >= 0

\* C30: the interrupt line is asserted if and only if a bit of the status
\* register is set in the mask register.
C30_LineFollowsStatus == irq = 1 <=> BitAnd(Stat, Mask) # 0

\* Some entry of the table has the width, height and depth properties, as
\* atarifb_find_mode receives them.
PropsMatch ==
    \E i \in 1 .. 4 :
        /\ atarifb_mode_table[i].width = width % 65536
        /\ atarifb_mode_table[i].height = height % 65536
        /\ atarifb_mode_table[i].depth = depth % 256

\* C22 as stated: attach fails only when the host surface has no supported
\* pixel format.
C22_OnlyPixelFormat == dev.realized = "failed" => dev.host_bpp # 32

\* C22: attach fails when no entry of the mode table matches the
\* properties (nothing is created) or when the host surface is not 32 bits
\* per pixel (only the console is created); in neither case is there a
\* register region, a video memory or a timer, and the outcome of attach
\* never changes afterwards.
C22_AttachFailure ==
    /\ [](dev.realized = "failed" =>
            /\ \/ /\ ~PropsMatch
                  /\ dev.errp = "unknown display mode"
                  /\ dev.created = {}
               \/ /\ PropsMatch
                  /\ dev.host_bpp # 32
                  /\ dev.errp = "unknown host depth"
                  /\ dev.created = {"console"}
            /\ dev.created \cap {"mem_ctrl", "mem_vram", "vbl_timer"} = {}
            /\ vbl_timer = -1
            /\ vram = <<>>
            /\ dirty = CleanLog)
    /\ [](dev.realized = "ok" =>
            /\ dev.host_bpp = 32
            /\ dev.errp = "none"
            /\ dev.created = {"console", "mem_ctrl", "mem_vram", "vbl_timer"}
            /\ \E i \in 1 .. 4 : mode = atarifb_mode_table[i])
    /\ [][dev.realized # "no" => dev' = dev]_vars

\* C22 witness: attach failed on the pixel format with the console created.
C22_Witness ==
    /\ dev.realized = "failed"
    /\ dev.errp = "unknown host depth"
    /\ dev.created = {"console"}
    /\ last.op = "realize"

\* C24: the redraw pass that follows a write of an address other than 0 to
\* the address register decodes every scanline and reports the rows [0, height) in one
\* notification.
C24_AddressWriteRedrawsAll ==
    [][(IsWrite(DAFB_MODE_VADDR1) /\ last.val # 0 /\ last'.op = "draw")
          => /\ drawn' = 0 .. height - 1
             /\ updates' = << [x |-> 0, y |-> 0, w |-> width,
                               h |-> height] >>]_vars

\* C28: a pass that decodes a scanline passes a width that is a multiple
\* of 16 to the decoder.
C28_WidthMultipleOf16 ==
    (last.op = "draw" /\ drawn # {}) => width % 16 = 0

\* C28 witness: scanlines were decoded after 321 was written to
\* REG_WIDTH * 4.
C28_Witness ==
    /\ last.op = "draw"
    /\ drawn # {}
    /\ regs[REG_WIDTH] = 321
    /\ width = 1280

\* C29: a pass that reaches the scanline loop has a depth of 1, 2, 4 or 8
\* and has selected the routine of that depth, never NULL.
C29_DecoderSelected ==
    (last.op = "draw" /\ draw_func # "none") =>
        /\ depth \in {1, 2, 4, 8}
        /\ draw_func # "NULL"
        /\ draw_func = CASE depth = 1 -> "atarifb_draw_line1"
                         [] depth = 2 -> "atarifb_draw_line2"
                         [] depth = 4 -> "atarifb_draw_line4"
                         [] depth = 8 -> "atarifb_draw_line8"

\* C29 witness: a pass at depth 8 decoded scanlines.
C29_Witness ==
    /\ last.op = "draw"
    /\ depth = 8
    /\ draw_func = "atarifb_draw_line8"
    /\ drawn # {}

\* C31: the redraw pass that follows a write of a palette component through
\* the data register decodes every scanline.
C31_ComponentWriteRedrawsAll ==
    [][(last.op = "write" /\ IsLut(last.addr) /\ last'.op = "draw")
          => drawn' = 0 .. height - 1]_vars

\* C32: the VBL timer is scheduled if and only if the VBL bit of the mask
\* register is set, and its expiry is then a multiple of the VBL period.
C32_TimerFollowsMask ==
    /\ vbl_timer # -1 <=> Bit2(Mask)
    /\ vbl_timer # -1 => vbl_timer % DAFB_INTR_VBL_PERIOD_NS = 0

\* Bits of the status register of the keyboard controller.
RxReady == BitAnd(kbd.status_reg, CSR_RXRDY) # 0
RxInterrupt == BitAnd(kbd.status_reg, CSR_INTERRUPT) # 0

\* C33: receive-ready is set if and only if the queue holds a byte and the
\* device is not paused; the interrupt line is asserted, and the interrupt
\* bit of the status register set, if and only if receive-ready is set and
\* receive interrupts are enabled in the control register.
C33_StatusFollowsQueue ==
    /\ RxReady <=> (kbd.fifo # <<>> /\ ~kbd.paused)
    /\ kbd.irq = 1 <=>
           (RxReady /\ BitAnd(kbd.ctrl_reg, CSR_RXINT_ENABLE) # 0)
    /\ RxInterrupt <=> kbd.irq = 1
    /\ BitAnd(kbd.status_reg, CSR_TXRDY) # 0

\* C33 witness: a key event queued a byte and raised the line.
C33_Witness ==
    /\ kbd_hist.op = "key"
    /\ kbd.irq = 1
    /\ Len(kbd.fifo) = 1

\* C34: the queue holds between 0 and FifoCap bytes and no push or pop
\* fails; a scancode that arrives with the queue full leaves the queue as
\* it is; a sync queues whole packets of three bytes and only into free
\* room; a read of the data register with the queue empty returns 0 and
\* changes nothing.
C34_QueueBounds ==
    /\ [](Len(kbd.fifo) \in 0 .. FifoCap /\ ~kbd.aborted)
    /\ [][/\ (kbd_hist'.op \in {"key", "btn"} /\ Len(kbd.fifo) = FifoCap)
                => kbd'.fifo = kbd.fifo
          /\ kbd_hist'.op = "sync"
                => /\ Len(kbd'.fifo) = Len(kbd.fifo) + 3 * kbd_hist'.iters
                   /\ 3 * kbd_hist'.iters <= FifoCap - Len(kbd.fifo)
          /\ (kbd_hist'.op = "read" /\ kbd.fifo = <<>>)
                => kbd_hist'.ret = 0 /\ kbd' = kbd]_vars

\* C34 witness: a key event found the queue full.
C34_Witness ==
    /\ kbd_hist.op = "key"
    /\ kbd_hist.arg = 0
    /\ Len(kbd.fifo) = FifoCap

\* C35: a command byte 0x01 that does not directly follow a command byte
\* 0x80 resets nothing and queues nothing.
C35_ResetNeedsAdjacentBytes ==
    [][(/\ kbd_hist'.op = "cmd"
        /\ kbd_hist'.arg = CMD_RESET2
        /\ kbd_hist.prev_cmd # CMD_RESET1) => kbd' = kbd]_vars

\* C36: the motion queued in packets since the last reset plus the motion
\* left in the accumulator is the motion received since then, on either
\* axis; a sync makes no more iterations than packets fit the queue.
C36_MotionConserved ==
    /\ kbd_hist.moved_x = kbd_hist.sent_x + kbd.dx
    /\ kbd_hist.moved_y = kbd_hist.sent_y + kbd.dy
    /\ kbd_hist.iters <= FifoCap \div 3
    /\ ~kbd.aborted

\* C36 witness: a sync queued two packets of -128 and left motion in the
\* accumulator.
C36_Witness ==
    /\ kbd_hist.op = "sync"
    /\ kbd_hist.iters = 2
    /\ kbd_hist.sent_x = -256
    /\ kbd.dx = -44

\* The pending bits a step sets in IPRA and in IPRB.
NewPendingA == BitClear(mfp'.regs[MFP_REG_IPRA], mfp.regs[MFP_REG_IPRA])
NewPendingB == BitClear(mfp'.regs[MFP_REG_IPRB], mfp.regs[MFP_REG_IPRB])

\* C37: the interrupt output of the MFP is asserted exactly when a pending
\* bit is unmasked in IPRA or in IPRB; the expiry of a timer and the
\* assertion of a GPIP line set only pending bits that are enabled at that
\* moment; a write to IPRA or IPRB sets no pending bit.
C37_IrqFollowsPending ==
    /\ [](mfp.irq = 1 <=> mfp_update_irq(mfp.regs) = 1)
    /\ [][/\ mfp_hist'.op \in {"timer_a", "timer_b", "timer_c", "gpip_on"}
                => /\ BitAnd(NewPendingA, mfp.regs[MFP_REG_IERA]) = NewPendingA
                   /\ BitAnd(NewPendingB, mfp.regs[MFP_REG_IERB]) = NewPendingB
          /\ mfp_hist'.op = "write"
                => NewPendingA = 0 /\ NewPendingB = 0]_vars

\* C37 witness: timer A expired while enabled and unmasked, and the output
\* is asserted.
C37_Witness ==
    /\ mfp_hist.op = "timer_a"
    /\ BitAnd(mfp.regs[MFP_REG_IPRA], IRA_TIMER_A) # 0
    /\ BitAnd(mfp.regs[MFP_REG_IMRA], IRA_TIMER_A) # 0
    /\ mfp.irq = 1

\* The timer given is armed for a time after now, or for ever when its
\* prescale selection is 0.
ArmedLater(t, prescale) ==
    /\ t.pending
    /\ IF prescale = 0 THEN t.forever ELSE ~t.forever /\ t.expire > now

\* C38: a timer that is started by a write to its control register, or
\* re-armed by its expiry, is armed for a time strictly after the current
\* virtual time when its prescale selection is not 0, and never expires
\* when it is 0.
C38_DeadlineAfterNow ==
    [][/\ (\/ mfp_hist'.op = "write" /\ mfp_hist'.addr = MFP_REG_TACR
           \/ mfp_hist'.op = "timer_a")
            => ArmedLater(mfp.timer_a, PrescaleA(mfp.regs))'
       /\ (\/ mfp_hist'.op = "write" /\ mfp_hist'.addr = MFP_REG_TBCR
           \/ mfp_hist'.op = "timer_b")
            => ArmedLater(mfp.timer_b, PrescaleB(mfp.regs))'
       /\ (\/ mfp_hist'.op = "write" /\ mfp_hist'.addr = MFP_REG_TCDCR
           \/ mfp_hist'.op = "timer_c")
            => ArmedLater(mfp.timer_c, PrescaleC(mfp.regs))']_vars

====
